---------------------------- MODULE Spec2Model ----------------------------
(***************************************************************************)
(* Model of the equation solver of the graphing calculator:                *)
(*   src/web/components/graphing-calculator/solver/SolverEngine.ts         *)
(*   src/web/components/graphing-calculator/calculator/CalculatorEngine.ts *)
(*                                                                         *)
(* Numbers.  A JavaScript number is modelled as an integer of a grid: the  *)
(* finite values are the integers of magnitude below Infinity, an          *)
(* arithmetic result that leaves the grid is rounded to it (as a double    *)
(* rounds to the nearest representable value) and a result whose magnitude *)
(* passes the largest grid value becomes +-Infinity (as a double           *)
(* overflows).  NaN, Infinity and -Infinity are three reserved values.     *)
(* A tolerance is held as a count of 1/TolDen grid units, so that a        *)
(* tolerance far below the spacing of the data (the code's 1e-10) exists.  *)
(***************************************************************************)
EXTENDS Integers, Sequences, FiniteSets, TLC

(***************************************************************************)
(* Bounds of the model                                                     *)
(***************************************************************************)
\* tolerances are counted in units of 1/TolDen
TolDen == 100
\* significant figures kept by the callers of roundToSignificant (the code
\* keeps 10 of a double's 17; the grid carries fewer digits, so fewer are kept)
SigFigures == 2
\* calls of solve / solveSymbolic in one process
NumCalls == 2
\* largest maxIterations given to bisection and to newtonRaphson
MaxIterationsBound == 5
\* largest scanResolution given to findAllRoots in ScanSpec
MaxScanResolution == 3
\* most pieces of an input string of preprocessExpression
MaxFragments == 3
\* calls of preprocessExpression in a row, each on the result of the last
MaxPasses == 2
\* most significant digits of a number given to formatNumber
MaxDigits == 3
\* the numbers given to formatNumber lie between 10^-MaxSmallExponent and
\* 10^(MaxLargeExponent + 1)
MaxSmallExponent == 12
MaxLargeExponent == 16
\* most calls of handleSolve in a behaviour of the component
MaxRequests == 3

(***************************************************************************)
(* JavaScript numbers                                                      *)
(***************************************************************************)
Infinity == 10^9
NaN == Infinity + 1
NegInfinity == 0 - Infinity

\* Op applied to the value of v (v is evaluated once, before Op)
Apply(Op(_), v) == CHOOSE r \in {Op(t) : t \in {v}} : TRUE

\* Op applied to the values of a and b
Apply2(Op(_, _), a, b) == CHOOSE r \in {Op(t[1], t[2]) : t \in {<<a, b>>}} : TRUE

isNaN(v) == v = NaN
isFinite(v) == v # NaN /\ v # Infinity /\ v # NegInfinity

Sign(v) == IF v > 0 THEN 1 ELSE IF v < 0 THEN -1 ELSE 0
Magnitude(v) == IF v < 0 THEN 0 - v ELSE v

\* Math.abs
MathAbs(v) ==
  Apply(LAMBDA u : IF isNaN(u) THEN NaN ELSE IF isFinite(u) THEN Magnitude(u) ELSE Infinity, v)

\* a + b
FAdd(a, b) ==
  LET sum(u, v) ==
      IF isNaN(u) \/ isNaN(v) THEN NaN
      ELSE IF ~isFinite(u) /\ ~isFinite(v) THEN (IF u = v THEN u ELSE NaN)
      ELSE IF ~isFinite(u) THEN u
      ELSE IF ~isFinite(v) THEN v
      ELSE IF u + v >= Infinity THEN Infinity
      ELSE IF u + v <= NegInfinity THEN NegInfinity
      ELSE u + v
  IN  Apply2(sum, a, b)

\* -a
FNeg(a) == Apply(LAMBDA u : IF isNaN(u) THEN NaN ELSE 0 - u, a)

\* a - b
FSub(a, b) == FAdd(a, FNeg(b))

\* a * b
FMul(a, b) ==
  LET product(u, v) ==
      IF isNaN(u) \/ isNaN(v) THEN NaN
      ELSE IF u = 0 \/ v = 0 THEN (IF isFinite(u) /\ isFinite(v) THEN 0 ELSE NaN)
      ELSE IF ~isFinite(u) \/ ~isFinite(v) \/ Magnitude(u) > (Infinity - 1) \div Magnitude(v)
           THEN Sign(u) * Sign(v) * Infinity
      ELSE u * v
  IN  Apply2(product, a, b)

\* a / n for a positive integer n, rounded to the grid (ties to even)
FDivInt(a, n) ==
  LET quotient(u, d) ==
      IF ~isFinite(u) THEN u
      ELSE LET q == u \div d
               r == u % d
           IN  IF 2 * r < d THEN q
               ELSE IF 2 * r > d THEN q + 1
               ELSE IF q % 2 = 0 THEN q ELSE q + 1
  IN  Apply2(quotient, a, n)

\* a < b, a > b (false when either is NaN)
FLt(a, b) == Apply2(LAMBDA u, v : ~isNaN(u) /\ ~isNaN(v) /\ u < v, a, b)
FGt(a, b) == FLt(b, a)

\* v < (num / den) * tolerance, for a tolerance of tol/TolDen
LtTolerance(v, num, den, tol) ==
  LET below(u) ==
        /\ ~isNaN(u)
        /\ u # Infinity
        /\ \/ u = NegInfinity
           \/ u < 0 /\ tol >= 0
           \/ u <= num * Magnitude(tol) /\ u * den * TolDen < num * tol
  IN  Apply(below, v)

(***************************************************************************)
(* Texts: a string is the sequence of its characters                       *)
(***************************************************************************)
DigitCharacters == <<"0", "1", "2", "3", "4", "5", "6", "7", "8", "9">>

\* the natural number written with the digits s
RECURSIVE digitsValue(_)
digitsValue(s) ==
  IF s = <<>> THEN 0
  ELSE Len(DigitCharacters) * digitsValue(SubSeq(s, 1, Len(s) - 1))
         + (CHOOSE d \in 0..(Len(DigitCharacters) - 1) : DigitCharacters[d + 1] = s[Len(s)])

\* s holds the text part at position k
HasAt(s, k, part) == k + Len(part) - 1 <= Len(s) /\ SubSeq(s, k, k + Len(part) - 1) = part

\* s holds the text part
Contains(s, part) == \E k \in 1..Len(s) : HasAt(s, k, part)

\* the end of the run of digits that starts at position i of s (i - 1: none)
RECURSIVE DigitRunEnd(_, _)
DigitRunEnd(s, i) ==
  IF i <= Len(s) /\ (\E d \in 1..Len(DigitCharacters) : DigitCharacters[d] = s[i])
  THEN DigitRunEnd(s, i + 1)
  ELSE i - 1

InfinityText == <<"I", "n", "f", "i", "n", "i", "t", "y">>

\* parseFloat(text) for a text without fraction and exponent: the number its
\* longest numeric prefix denotes, NaN when it has none
parseFloat(text) ==
  LET negative == text # <<>> /\ Head(text) = "-"
      body == IF text # <<>> /\ Head(text) \in {"-", "+"} THEN Tail(text) ELSE text
      end == DigitRunEnd(body, 1)
  IN  IF HasAt(body, 1, InfinityText) THEN (IF negative THEN NegInfinity ELSE Infinity)
      ELSE IF end = 0 THEN NaN
      ELSE IF negative THEN 0 - digitsValue(SubSeq(body, 1, end))
      ELSE digitsValue(SubSeq(body, 1, end))

(***************************************************************************)
(* Expression texts.  form "plain" is an expression in x, "equation" is    *)
(* `<expression> = <rhs>`, "zeroform" is `(<expression>) - (<rhs>)`.       *)
(* kinds: lin  x - c;  neg  c - x;  sq  (x - c)^2;  const  c;              *)
(*        quad  (x - c) * (x - c - 3);                                     *)
(*        cubic  (x - c)^3 - (x - c);                                      *)
(*        log  0*log(x - c) + x - c - 1 (complex below c, NaN at c);       *)
(*        bad  a text the parser rejects.                                  *)
(***************************************************************************)
Text(kind, c, form, rhs) == [kind |-> kind, c |-> c, form |-> form, rhs |-> rhs]
Plain(kind, c) == Text(kind, c, "plain", 0)
\* `<expression> = <rhs>`
Equation(kind, c, rhs) == Text(kind, c, "equation", rhs)

\* Step applied k times to s: the passes of a for statement of k rounds
RECURSIVE Iterate(_, _, _)
Iterate(Step(_), s, k) ==
  IF k <= 0 THEN s
  ELSE IF k = 1 THEN Step(s)
  ELSE Apply(LAMBDA t : Iterate(Step, t, k - (k \div 2)), Iterate(Step, s, k \div 2))

Throws(message) == [thrown |-> TRUE, message |-> message]
IsThrown(r) == "thrown" \in DOMAIN r

\* preprocessExpression on the texts of the solver: it leaves them as they
\* are, none uses a display glyph, an alias, implicit multiplication or a
\* factorial
preprocessText(expr) == expr

\* math.compile: a syntax error for a malformed text; `<expression> = <rhs>`
\* is rejected too (an assignment to something that is no symbol)
mathCompile(text) ==
  IF text.kind = "bad" THEN Throws("SyntaxError")
  ELSE IF text.form = "equation" THEN Throws("SyntaxError: Invalid left hand side of assignment operator =")
  ELSE [compiled |-> text]

\* compile(expression)
compile(expression) == mathCompile(preprocessText(expression))

\* compiled.evaluate({x}) followed by the conversion to a number, for the
\* expression t in x
compiledExpression(t, x) ==
  CASE t.kind = "lin" -> [value |-> FSub(x, t.c)]
    [] t.kind = "neg" -> [value |-> FSub(t.c, x)]
    [] t.kind = "sq" -> [value |-> FMul(FSub(x, t.c), FSub(x, t.c))]
    [] t.kind = "const" -> [value |-> t.c]
    [] t.kind = "quad" -> [value |-> FMul(FSub(x, t.c), FSub(FSub(x, t.c), 3))]
    [] t.kind = "cubic" ->
         [value |-> FSub(FMul(FMul(FSub(x, t.c), FSub(x, t.c)), FSub(x, t.c)),
                         FSub(x, t.c))]
    [] t.kind = "log" ->
         IF FLt(x, t.c) THEN Throws("Cannot convert Complex to number")
         ELSE IF x = t.c THEN [value |-> NaN]
         ELSE [value |-> FSub(FSub(x, t.c), 1)]
    [] OTHER -> Throws("TypeError")

\* `(<expression>) - (<rhs>)` of the zero form, given the value of <expression>
compiledZeroForm(t, body) ==
  IF IsThrown(body) THEN body
  ELSE IF t.form = "zeroform" THEN [value |-> FSub(body.value, t.rhs)]
  ELSE body

\* compiled.evaluate({x}) followed by the conversion to a number
compiledEvaluate(compiled, x) ==
  compiledZeroForm(compiled.compiled, compiledExpression(compiled.compiled, x))

\* lines 158-160 of CalculatorEngine: a failure becomes NaN
evaluateCompiledCatch(result) == IF IsThrown(result) THEN NaN ELSE result.value

\* evaluateCompiled(compiled, {x})
evaluateCompiled(compiled, x) == Apply(evaluateCompiledCatch, compiledEvaluate(compiled, x))

(***************************************************************************)
(* roundToSignificant                                                      *)
(***************************************************************************)
\* Math.ceil(Math.log10(n)) for an integer n >= 1
RECURSIVE CeilLog10(_)
CeilLog10(n) == IF n <= 1 THEN 0 ELSE 1 + CeilLog10((n + 9) \div 10)

roundToSignificant(num, figures) ==
  IF num = 0 THEN 0
  ELSE IF ~isFinite(num) THEN NaN
  ELSE LET d == CeilLog10(Magnitude(num))
           power == figures - d
       IN  IF power >= 0 THEN num
           ELSE LET m == 10^(0 - power)
                IN  ((2 * num + m) \div (2 * m)) * m

(***************************************************************************)
(* SolverResult                                                            *)
(***************************************************************************)
NoIterations == 0 - 1
NoError == "undefined"

SolverResult(roots, method, iterations, error) ==
  [roots |-> roots, method |-> method, iterations |-> iterations, error |-> error]

\* error instanceof Error ? error.message : fallback
ErrorMessage(e) == e.message

(***************************************************************************)
(* bisection.  The loop state is a record; bisectionIter is one pass of    *)
(* the loop body, bisectionLoop is the for statement.                      *)
(***************************************************************************)
\* lines 158-163: the state before the loop
bisectionEnter(compiled, a, b) ==
  [left |-> a, right |-> b, i |-> 0, iterations |-> 0,
   fa |-> evaluateCompiled(compiled, a),
   fb |-> evaluateCompiled(compiled, b),
   returned |-> FALSE, mid |-> 0]

\* a sign test that looks at the two values one by one
NoSignChangeBothPositive(s) == FGt(s.fa, 0) /\ FGt(s.fb, 0)

\* line 166: fa * fb > 0
NoSignChange(s) == FGt(FMul(s.fa, s.fb), 0)

\* line 179: the two convergence tests
bisectionConverged(s, mid, fm, tolerance) ==
  \/ LtTolerance(MathAbs(fm), 1, 1, tolerance)
  \/ LtTolerance(FSub(s.right, s.left), 2, 1, tolerance)

\* lines 187-193: the half that is kept
bisectionNarrow(s, mid, fm) ==
  IF FLt(FMul(s.fa, fm), 0)
  THEN [s EXCEPT !.right = mid, !.fb = fm]
  ELSE [s EXCEPT !.left = mid, !.fa = fm]

\* lines 175-193: one pass of the loop body
bisectionIter(compiled, tolerance, s) ==
  LET mid == FDivInt(FAdd(s.left, s.right), 2)
      fm == evaluateCompiled(compiled, mid)
      t == [s EXCEPT !.iterations = s.i + 1]
  IN  IF bisectionConverged(t, mid, fm, tolerance)
      THEN [t EXCEPT !.returned = TRUE, !.mid = mid]
      ELSE [bisectionNarrow(t, mid, fm) EXCEPT !.i = s.i + 1]

\* a loop that makes one pass too many
bisectionContinuesInclusive(s, maxIterations) == ~s.returned /\ s.i <= maxIterations

\* line 174: the loop goes on while i < maxIterations, unless line 180 has
\* returned
bisectionContinues(s, maxIterations) == ~s.returned /\ s.i < maxIterations

\* line 174: for (let i = 0; i < maxIterations; i++)
bisectionLoop(compiled, tolerance, maxIterations, s) ==
  LET pass(t) == IF bisectionContinues(t, maxIterations)
                 THEN bisectionIter(compiled, tolerance, t)
                 ELSE t
  IN  Iterate(pass, s, maxIterations)

\* lines 180-184 and 196-200: the result of a loop that has ended
bisectionResult(s) ==
  IF s.returned
  THEN SolverResult(<<roundToSignificant(s.mid, SigFigures)>>, "bisection", s.iterations, NoError)
  ELSE SolverResult(<<roundToSignificant(FDivInt(FAdd(s.left, s.right), 2), SigFigures)>>,
                    "bisection", s.iterations, NoError)

\* an early return that names no error
bisectionNoSignChangeSilent == SolverResult(<<>>, "bisection", NoIterations, NoError)

\* lines 167-171
bisectionNoSignChange ==
  SolverResult(<<>>, "bisection", NoIterations, "No sign change in interval")

\* lines 201-207: the catch clause
bisectionCatch(e) == SolverResult(<<>>, "bisection", NoIterations, ErrorMessage(e))

\* the body of the try statement: a result, or what it throws
bisectionTry(expression, a, b, tolerance, maxIterations) ==
  LET compiled == compile(expression)
      run(s) == IF NoSignChange(s) THEN bisectionNoSignChange
                ELSE Apply(bisectionResult, bisectionLoop(compiled, tolerance, maxIterations, s))
  IN  IF IsThrown(compiled) THEN compiled
      ELSE Apply(run, bisectionEnter(compiled, a, b))

\* a try statement without its catch clause
bisectionRethrow(r) == r

\* try { ... } catch (error) { ... }
bisectionSettle(r) == IF IsThrown(r) THEN bisectionCatch(r) ELSE r

bisection(expression, a, b, tolerance, maxIterations) ==
  Apply(bisectionSettle, bisectionTry(expression, a, b, tolerance, maxIterations))

\* the defaults of the parameter lists (tolerance = 1e-10 is one count of
\* 1/TolDen: below the spacing of every value the model holds)
DefaultTolerance == 1
DefaultMaxIterations == 100
DefaultScanResolution == 100

(***************************************************************************)
(* findAllRoots.  scanIter is one pass of the scan loop.                   *)
(***************************************************************************)
\* roots.some((r) => Math.abs(r - v) < tolerance * 100)
someWithin(roots, v, tolerance) ==
  \E k \in 1..Len(roots) : LtTolerance(MathAbs(FSub(roots[k], v)), 100, 1, tolerance)

\* roots.sort((a, b) => a - b)
RECURSIVE sortAscending(_)
sortAscending(roots) ==
  IF Len(roots) <= 1 THEN roots
  ELSE LET h == Head(roots)
           insert(rest) ==
             LET n == Cardinality({k \in 1..Len(rest) : rest[k] < h})
             IN  SubSeq(rest, 1, n) \o <<h>> \o SubSeq(rest, n + 1, Len(rest))
       IN  Apply(insert, sortAscending(Tail(roots)))

\* a / b rounded to the grid (ties to even)
FDiv(a, b) ==
  LET quotient(u, v) ==
      IF isNaN(u) \/ isNaN(v) THEN NaN
      ELSE IF ~isFinite(u) /\ ~isFinite(v) THEN NaN
      ELSE IF ~isFinite(v) THEN 0
      ELSE IF v = 0 THEN (IF u = 0 THEN NaN ELSE Sign(u) * Infinity)
      ELSE IF ~isFinite(u) THEN Sign(u) * Sign(v) * Infinity
      ELSE IF v < 0 THEN FDivInt(0 - u, 0 - v)
      ELSE FDivInt(u, v)
  IN  Apply2(quotient, a, b)

\* what the scan does, in the order in which it does it: the evaluation of
\* sample i, and the call of bisection on a..b with its result
SampleEvent(i) ==
  [ev |-> "sample", i |-> i, a |-> 0, b |-> 0, result |-> <<>>, iterations |-> 0]
BisectEvent(a, b, result) ==
  [ev |-> "bisect", i |-> 0, a |-> a, b |-> b, result |-> result.roots,
   iterations |-> result.iterations]

\* a scan whose loop evaluates the first sample again
scanEnterFromZero(compiled, rangeStart, rangeEnd, scanResolution) ==
  [roots |-> <<>>, i |-> 0,
   step |-> FDiv(FSub(rangeEnd, rangeStart), scanResolution),
   prevX |-> rangeStart,
   prevFx |-> evaluateCompiled(compiled, rangeStart),
   log |-> <<SampleEvent(0)>>]

\* lines 222-227: the state before the scan
scanEnter(compiled, rangeStart, rangeEnd, scanResolution) ==
  [roots |-> <<>>, i |-> 1,
   step |-> FDiv(FSub(rangeEnd, rangeStart), scanResolution),
   prevX |-> rangeStart,
   prevFx |-> evaluateCompiled(compiled, rangeStart),
   log |-> <<SampleEvent(0)>>]

\* a test that sees only the crossings from below
scanSignChangeRising(s, fx) ==
  isFinite(s.prevFx) /\ isFinite(fx) /\ FLt(s.prevFx, 0) /\ FGt(fx, 0)

\* line 234: isFinite(prevFx) && isFinite(fx) && prevFx * fx < 0
scanSignChange(s, fx) ==
  isFinite(s.prevFx) /\ isFinite(fx) /\ FLt(FMul(s.prevFx, fx), 0)

\* lines 234-244: a finite sign change is refined by bisection
scanRefine(expression, tolerance, s, x, fx) ==
  LET keep(result) ==
        [s EXCEPT !.log = Append(s.log, BisectEvent(s.prevX, x, result)),
                  !.roots = IF Len(result.roots) > 0
                               /\ ~someWithin(s.roots, result.roots[1], tolerance)
                            THEN Append(s.roots, result.roots[1])
                            ELSE s.roots]
  IN  IF scanSignChange(s, fx)
      THEN Apply(keep, bisection(expression, s.prevX, x, tolerance, DefaultMaxIterations))
      ELSE s

\* lines 247-251: a sample that is a zero within the tolerance
scanFlag(roots, tolerance, x, fx) ==
  IF LtTolerance(MathAbs(fx), 1, 1, tolerance) /\ ~someWithin(roots, x, tolerance)
  THEN Append(roots, roundToSignificant(x, SigFigures))
  ELSE roots

\* lines 230-254: one pass of the loop body
scanIter(expression, compiled, rangeStart, tolerance, s) ==
  LET x == FAdd(rangeStart, FMul(s.i, s.step))
      fx == evaluateCompiled(compiled, x)
      sampled == [s EXCEPT !.log = Append(s.log, SampleEvent(s.i))]
      flag(t) == [t EXCEPT !.roots = scanFlag(t.roots, tolerance, x, fx),
                           !.prevX = x, !.prevFx = fx, !.i = s.i + 1]
  IN  Apply(flag, scanRefine(expression, tolerance, sampled, x, fx))

\* line 229: the loop goes on while i <= scanResolution
scanContinues(s, scanResolution) == s.i <= scanResolution

\* line 229: for (let i = 1; i <= scanResolution; i++)
scanLoop(expression, compiled, rangeStart, tolerance, scanResolution, s) ==
  LET pass(t) == IF scanContinues(t, scanResolution)
                 THEN scanIter(expression, compiled, rangeStart, tolerance, t)
                 ELSE t
  IN  Iterate(pass, s, scanResolution)

\* lines 257-260
scanResult(s) == SolverResult(sortAscending(s.roots), "combined", NoIterations, NoError)

\* lines 261-267: the catch clause
findAllRootsCatch(e) == SolverResult(<<>>, "combined", NoIterations, ErrorMessage(e))

findAllRootsTry(expression, rangeStart, rangeEnd, tolerance, scanResolution) ==
  LET compiled == compile(expression)
      run(s) == Apply(scanResult,
                      scanLoop(expression, compiled, rangeStart, tolerance, scanResolution, s))
  IN  IF IsThrown(compiled) THEN compiled
      ELSE Apply(run, scanEnter(compiled, rangeStart, rangeEnd, scanResolution))

\* try { ... } catch (error) { ... }
findAllRootsSettle(r) == IF IsThrown(r) THEN findAllRootsCatch(r) ELSE r

findAllRoots(expression, rangeStart, rangeEnd, tolerance, scanResolution) ==
  Apply(findAllRootsSettle,
        findAllRootsTry(expression, rangeStart, rangeEnd, tolerance, scanResolution))

(***************************************************************************)
(* newtonRaphson.  The derivative dfx = (fxph - fxmh) / (2 * h) is held as *)
(* the quotient of its numerator by 2 * h; h is one grid unit.             *)
(***************************************************************************)
\* lines 103-104: the state before the loop
newtonEnter(initialGuess) ==
  [x |-> initialGuess, i |-> 0, iterations |-> 0, status |-> "loop"]

\* lines 107-128: one pass of the loop body
newtonIter(compiled, tolerance, s) ==
  LET h == 1
      fx == evaluateCompiled(compiled, s.x)
      fxph == evaluateCompiled(compiled, FAdd(s.x, h))
      fxmh == evaluateCompiled(compiled, FSub(s.x, h))
      num == FSub(fxph, fxmh)
  IN  IF ~isFinite(fx) THEN [s EXCEPT !.status = "break"]
      ELSE IF LtTolerance(MathAbs(fx), 1, 1, tolerance)
           THEN [s EXCEPT !.status = "found", !.iterations = s.i + 1]
      ELSE IF LtTolerance(MathAbs(num), 2 * h, 100, tolerance)
           THEN [s EXCEPT !.status = "break"]
      ELSE [s EXCEPT !.x = FSub(s.x, FDiv(FMul(fx, 2 * h), num)),
                     !.iterations = s.i + 1, !.i = s.i + 1]

\* lines 107-122: the calls of evaluateCompiled one pass makes: f(x), and
\* f(x + h) and f(x - h) unless line 108 or line 111 has left the loop
newtonEvaluations(compiled, tolerance, s) ==
  LET fx == evaluateCompiled(compiled, s.x)
  IN  IF ~isFinite(fx) \/ LtTolerance(MathAbs(fx), 1, 1, tolerance)
      THEN <<s.x>>
      ELSE <<s.x, FAdd(s.x, 1), FSub(s.x, 1)>>

\* a loop that makes one pass too many
newtonContinuesInclusive(s, maxIterations) == s.status = "loop" /\ s.i <= maxIterations

\* line 106: the loop goes on while i < maxIterations, unless a break or the
\* return has left it
newtonContinues(s, maxIterations) == s.status = "loop" /\ s.i < maxIterations

\* line 106: for (let i = 0; i < maxIterations; i++)
newtonLoop(compiled, tolerance, maxIterations, s) ==
  LET pass(t) == IF newtonContinues(t, maxIterations)
                 THEN newtonIter(compiled, tolerance, t)
                 ELSE t
  IN  Iterate(pass, s, maxIterations)

\* a result that counts the passes before the last one
newtonResultOffByOne(s) ==
  IF s.status = "found"
  THEN SolverResult(<<roundToSignificant(s.x, SigFigures)>>, "newton", s.i, NoError)
  ELSE SolverResult(<<>>, "newton", s.iterations, "Did not converge")

\* a result that hands out the last iterate when the loop was left by a break
newtonResultBestGuess(s) ==
  IF s.status \in {"found", "break"}
  THEN SolverResult(<<roundToSignificant(s.x, SigFigures)>>, "newton", s.iterations, NoError)
  ELSE SolverResult(<<>>, "newton", s.iterations, "Did not converge")

\* lines 112-116 and 131-136: the result of a loop that has ended
newtonResult(s) ==
  IF s.status = "found"
  THEN SolverResult(<<roundToSignificant(s.x, SigFigures)>>, "newton", s.iterations, NoError)
  ELSE SolverResult(<<>>, "newton", s.iterations, "Did not converge")

\* lines 137-143: the catch clause
newtonCatch(e) == SolverResult(<<>>, "newton", NoIterations, ErrorMessage(e))

newtonRaphsonTry(expression, initialGuess, tolerance, maxIterations) ==
  LET compiled == compile(expression)
      run(s) == Apply(newtonResult, newtonLoop(compiled, tolerance, maxIterations, s))
  IN  IF IsThrown(compiled) THEN compiled
      ELSE Apply(run, newtonEnter(initialGuess))

\* try { ... } catch (error) { ... }
newtonSettle(r) == IF IsThrown(r) THEN newtonCatch(r) ELSE r

newtonRaphson(expression, initialGuess, tolerance, maxIterations) ==
  Apply(newtonSettle, newtonRaphsonTry(expression, initialGuess, tolerance, maxIterations))

(***************************************************************************)
(* loadNerdamer, solveSymbolic, solve                                      *)
(***************************************************************************)
\* a load that does not look at the handle
needsLoadAlways(handle, window) == window

\* line 25: !nerdamer && typeof window !== 'undefined'
needsLoad(handle, window) == handle = "null" /\ window

\* a failed import that is not caught
loadNerdamerRethrow(handle) == Throws("Failed to load nerdamer")

\* lines 30-34: a failed import is caught and the handle returned as it is
loadNerdamerCatch(handle) == [value |-> handle]

\* lines 45-51
symbolicUnavailable ==
  SolverResult(<<>>, "symbolic", NoIterations, "Symbolic solver not available")

\* lines 81-87: the catch clause
symbolicCatch(e) == SolverResult(<<>>, "symbolic", NoIterations, ErrorMessage(e))

\* lines 65-75: the numeric roots of the solutions, in their order; a solution
\* has a decimal text, which parseFloat reads, or its evaluation throws
RECURSIVE extractRoots(_, _)
extractRoots(solutions, roots) ==
  IF solutions = <<>> THEN roots
  ELSE LET sol == Head(solutions)
           rest(found) == extractRoots(Tail(solutions), found)
           keep(num) == IF isFinite(num) /\ (\A k \in 1..Len(roots) : roots[k] # num)
                        THEN Append(roots, num)
                        ELSE roots
       IN  IF sol.throws THEN Apply(rest, roots)
           ELSE Apply(rest, Apply(keep, parseFloat(sol.text)))

\* lines 53-80: the body of the try statement; outcome is what n.solve does
solveSymbolicTry(equation, outcome) ==
  IF IsThrown(outcome) THEN outcome
  ELSE SolverResult(sortAscending(extractRoots(outcome.solutions, <<>>)),
                    "symbolic", NoIterations, NoError)

\* lines 45-87: solveSymbolic once loadNerdamer has returned n
symbolicSettle(r) == IF IsThrown(r) THEN symbolicCatch(r) ELSE r

solveSymbolicLoaded(n, equation, outcome) ==
  IF n = "null" THEN symbolicUnavailable
  ELSE Apply(symbolicSettle, solveSymbolicTry(equation, outcome))

\* line 281: a field of options, or its default
Option(options, field, default) ==
  IF field \in options.given THEN options[field] ELSE default

DefaultRangeStart == 0 - 100
DefaultRangeEnd == 100

\* an equation handed on as it was typed
solveExpressionRaw(equation) == equation

\* lines 284-288: the zero form of an equation
solveExpression(equation) ==
  IF equation.form = "equation" THEN [equation EXCEPT !.form = "zeroform"] ELSE equation

\* lines 297-302
solveNumerical(equation, options) ==
  findAllRoots(solveExpression(equation),
               Option(options, "rangeStart", DefaultRangeStart),
               Option(options, "rangeEnd", DefaultRangeEnd),
               Option(options, "tolerance", DefaultTolerance),
               DefaultScanResolution)

\* line 292: the symbolic result is the answer
symbolicAnswers(symbolicResult) == Len(symbolicResult.roots) > 0

(***************************************************************************)
(* State                                                                   *)
(***************************************************************************)
VARIABLES
  mode,       \* which entry point the process exercises
  nerdamer,   \* line 22: the module-level handle, "null" or "module"
  hasWindow,  \* typeof window !== 'undefined'
  modules,    \* the module loader: 1 is 'nerdamer', 2 is 'nerdamer/Solve'
  input,      \* the equation and the options the calls are made with, and
              \* what n.solve does with that equation
  calls,      \* the calls of solve / solveSymbolic
  loads,      \* how often line 27 has started the import
  assigns,    \* how often line 29 has assigned the handle
  reassigned, \* line 29 has assigned a handle that was already set
  bis,        \* a call of bisection
  scan,       \* a call of findAllRoots
  newton,     \* a call of newtonRaphson
  calc,       \* a call of a function of CalculatorEngine
  ui          \* the EquationSolver component: its state, the calls of
              \* handleSolve and the continuations that are ready to run

vars == <<mode, nerdamer, hasWindow, modules, input, calls, loads, assigns,
          reassigned, bis, scan, newton, calc, ui>>

solverVars == <<nerdamer, hasWindow, modules, input, calls, loads, assigns, reassigned>>

CallIds == 1..NumCalls

NoResult == SolverResult(<<>>, "none", NoIterations, NoError)

\* the inputs of the calls
Options(given, rangeStart, rangeEnd, tolerance) ==
  [given |-> given, rangeStart |-> rangeStart, rangeEnd |-> rangeEnd, tolerance |-> tolerance]

NoOptions == Options({}, 0, 0, 0)

\* what n.solve(expr, 'x') does: it throws, or returns solutions; a solution
\* has a decimal text, or its evaluation throws
Solution(text) == [text |-> text, throws |-> FALSE]
NotNumeric == [text |-> <<>>, throws |-> TRUE]

Input(equation, options, solved) ==
  [equation |-> equation, options |-> options, solved |-> solved]

Inputs ==
  { \* x^2 = 16
    Input(Equation("sq", 0, 16), NoOptions,
          [solutions |-> <<Solution(<<"4">>), Solution(<<"-", "4">>), Solution(<<"4">>),
                           Solution(<<"N", "a", "N">>), Solution(InfinityText),
                           Solution(<<"x">>), NotNumeric>>]),
    \* x^2 = 16 with tolerance 2
    Input(Equation("sq", 0, 16), Options({"tolerance"}, 0, 0, 2 * TolDen),
          [solutions |-> <<Solution(<<"4">>), Solution(<<"-", "4">>)>>]),
    \* x^2 = -4, whose solutions are 2*i and -2*i
    Input(Equation("sq", 0, 0 - 4), NoOptions,
          [solutions |-> <<Solution(<<"2", "*", "i">>), Solution(<<"-", "2", "*", "i">>)>>]),
    \* x^2 = -1, whose solutions are i and -i
    Input(Equation("sq", 0, 0 - 1), NoOptions,
          [solutions |-> <<Solution(<<"i">>), Solution(<<"-", "i">>)>>]),
    \* x - 2 = 2 on 0..400 with tolerance 2, of which the backend finds nothing
    Input(Equation("lin", 2, 2),
          Options({"rangeStart", "rangeEnd", "tolerance"}, 0, 400, 2 * TolDen),
          [solutions |-> <<>>]),
    \* x^3 - x = 0
    Input(Equation("cubic", 0, 0), NoOptions,
          [solutions |-> <<Solution(<<"0">>), Solution(<<"1">>), Solution(<<"-", "1">>)>>]),
    \* x - 5, which the backend rejects
    Input(Plain("lin", 5), NoOptions, Throws("nerdamer: cannot solve")),
    \* a text that does not parse
    Input(Plain("bad", 0), NoOptions, Throws("nerdamer: parse error")) }

IdleCall ==
  [pc |-> "idle", fn |-> "none", n |-> "null", load |-> "none",
   afterFirst |-> FALSE, afterLoaded |-> FALSE,
   symbolicResult |-> NoResult, result |-> NoResult, log |-> <<>>]

IdleBis == [pc |-> "unused"]
IdleScan == [pc |-> "unused"]
IdleNewton == [pc |-> "unused"]
IdleCalc == [pc |-> "unused"]
IdleUi == [pc |-> "unused"]

\* a process that makes no call of solve / solveSymbolic
NoInput == Input(Plain("const", 0), NoOptions, [solutions |-> <<>>])

SolverIdle ==
  /\ nerdamer = "null"
  /\ modules = [m \in 1..2 |-> "none"]
  /\ calls = [c \in CallIds |-> IdleCall]
  /\ loads = 0
  /\ assigns = 0
  /\ reassigned = FALSE

\* the process before the first call of solve / solveSymbolic
SolveInit ==
  /\ mode = "solve"
  /\ hasWindow \in BOOLEAN
  /\ input \in Inputs
  /\ SolverIdle
  /\ calc = IdleCalc
  /\ ui = IdleUi
  /\ bis = IdleBis
  /\ scan = IdleScan
  /\ newton = IdleNewton

(***************************************************************************)
(* solve and solveSymbolic.  A call runs from one await to the next in one *)
(* step.                                                                   *)
(***************************************************************************)
\* import(m): the loader fetches a module that is not loaded, once for all
\* the imports that wait for it
startImport(mods, m) == IF mods[m] = "none" THEN [mods EXCEPT ![m] = "fetching"] ELSE mods

\* a call that has completed with a loaded handle
completedLoaded(call) == call.pc = "done" /\ call.n = "module"

\* a call that starts the scan without awaiting the symbolic attempt
solveStartedRacing(call, fn) == [call EXCEPT !.fn = fn, !.log = <<"symbolic start", "numeric">>]

\* lines 281-291: solve awaits solveSymbolic before it does anything else
solveStarted(call, fn) == [call EXCEPT !.fn = fn, !.log = <<"symbolic start">>]

\* lines 281-291 and 44, 25-27: the call runs into loadNerdamer, which starts
\* the import or returns the handle
Invoke(c, fn) ==
  /\ mode = "solve"
  /\ calls[c].pc = "idle"
  /\ \A d \in CallIds : d < c => calls[d].pc # "idle"
  /\ LET call == [solveStarted(calls[c], fn) EXCEPT
                    !.afterFirst = (c # 1 /\ calls[1].pc = "done"),
                    !.afterLoaded = (\E d \in CallIds : completedLoaded(calls[d]))]
     IN  IF needsLoad(nerdamer, hasWindow)
         THEN /\ calls' = [calls EXCEPT ![c] = [call EXCEPT !.pc = "await1", !.load = "started"]]
              /\ modules' = startImport(modules, 1)
              /\ loads' = loads + 1
         ELSE /\ calls' = [calls EXCEPT ![c] = [call EXCEPT !.pc = "loaded", !.n = nerdamer]]
              /\ UNCHANGED <<modules, loads>>
  /\ UNCHANGED <<mode, ui, nerdamer, hasWindow, input, assigns, reassigned, bis, scan, newton, calc>>

\* line 27 resolves and line 28 starts the second import
Import1Resolved(c) ==
  /\ mode = "solve"
  /\ calls[c].pc = "await1"
  /\ modules[1] = "loaded"
  /\ calls' = [calls EXCEPT ![c].pc = "await2"]
  /\ modules' = startImport(modules, 2)
  /\ UNCHANGED <<mode, ui, nerdamer, hasWindow, input, loads, assigns, reassigned, bis, scan, newton, calc>>

\* line 28 resolves; lines 29 and 34 assign the handle and return it
Import2Resolved(c) ==
  /\ mode = "solve"
  /\ calls[c].pc = "await2"
  /\ modules[2] = "loaded"
  /\ nerdamer' = "module"
  /\ assigns' = assigns + 1
  /\ reassigned' = (reassigned \/ nerdamer # "null")
  /\ calls' = [calls EXCEPT ![c].pc = "loaded", ![c].n = "module", ![c].load = "imported"]
  /\ UNCHANGED <<mode, ui, hasWindow, modules, input, loads, bis, scan, newton, calc>>

\* the loader has fetched module m
FetchSucceeds(m) ==
  /\ mode = "solve"
  /\ modules[m] = "fetching"
  /\ modules' = [modules EXCEPT ![m] = "loaded"]
  /\ UNCHANGED <<mode, ui, nerdamer, hasWindow, input, calls, loads, assigns, reassigned, bis, scan, newton, calc>>

\* what a call that waited for a failed import does next
afterFailedImport(call, handle) ==
  LET r == loadNerdamerCatch(handle)
  IN  IF IsThrown(r) THEN [call EXCEPT !.pc = "rejected", !.load = "failed"]
      ELSE [call EXCEPT !.pc = "loaded", !.n = r.value, !.load = "failed"]

\* the loader could not fetch module m: every import that waits for it is
\* rejected, and the waiting calls run their catch clause (lines 30-34) before
\* the loader does anything else
FetchFails(m) ==
  /\ mode = "solve"
  /\ modules[m] = "fetching"
  /\ modules' = [modules EXCEPT ![m] = "none"]
  /\ calls' = [c \in CallIds |->
                 IF calls[c].pc = (IF m = 1 THEN "await1" ELSE "await2")
                 THEN afterFailedImport(calls[c], nerdamer)
                 ELSE calls[c]]
  /\ UNCHANGED <<mode, ui, nerdamer, hasWindow, input, loads, assigns, reassigned, bis, scan, newton, calc>>

\* lines 45-87: solveSymbolic resumes with n and returns its result
SymbolicStep(c) ==
  /\ mode = "solve"
  /\ calls[c].pc = "loaded"
  /\ LET r == solveSymbolicLoaded(calls[c].n, input.equation, input.solved)
     IN  calls' = [calls EXCEPT
                     ![c].symbolicResult = r,
                     ![c].log = Append(calls[c].log, "symbolic end"),
                     ![c].pc = IF calls[c].fn = "solve" THEN "resumed" ELSE "done",
                     ![c].result = IF calls[c].fn = "solve" THEN NoResult ELSE r]
  /\ UNCHANGED <<mode, ui, nerdamer, hasWindow, modules, input, loads, assigns, reassigned, bis, scan, newton, calc>>

\* lines 292-304: solve resumes with the symbolic result
solveResumed(call, equation, options) ==
  IF symbolicAnswers(call.symbolicResult)
  THEN [call EXCEPT !.pc = "done", !.result = call.symbolicResult]
  ELSE [call EXCEPT !.pc = "done", !.result = solveNumerical(equation, options),
                    !.log = Append(call.log, "numeric")]

SolveResume(c) ==
  /\ mode = "solve"
  /\ calls[c].pc = "resumed"
  /\ calls' = [calls EXCEPT ![c] = solveResumed(calls[c], input.equation, input.options)]
  /\ UNCHANGED <<mode, ui, nerdamer, hasWindow, modules, input, loads, assigns, reassigned, bis, scan, newton, calc>>

SolveNext ==
  \/ \E c \in CallIds, fn \in {"solve", "solveSymbolic"} : Invoke(c, fn)
  \/ \E c \in CallIds : Import1Resolved(c)
  \/ \E c \in CallIds : Import2Resolved(c)
  \/ \E m \in 1..2 : FetchSucceeds(m)
  \/ \E m \in 1..2 : FetchFails(m)
  \/ \E c \in CallIds : SymbolicStep(c)
  \/ \E c \in CallIds : SolveResume(c)

SolveSpec == SolveInit /\ [][SolveNext]_vars

(***************************************************************************)
(* bisection, pass by pass                                                 *)
(***************************************************************************)
Tolerances == {0, DefaultTolerance, 2 * TolDen}

BisectExpressions ==
  { Plain("lin", 0), Plain("lin", 3), Plain("neg", 3), Plain("sq", 2),
    Plain("const", 0), Plain("log", 1), Plain("bad", 0) }

BisectIntervals == { <<0, 4>>, <<0, 7>>, <<1, 2>>, <<4, 0>>, <<0 - 8, 8>>, <<3, 16>> }

\* the process before the call of bisection
BisectInit ==
  /\ mode = "bisection"
  /\ hasWindow = FALSE
  /\ input = NoInput
  /\ SolverIdle
  /\ calc = IdleCalc
  /\ ui = IdleUi
  /\ \E e \in BisectExpressions, ab \in BisectIntervals, tol \in Tolerances,
        n \in 0..MaxIterationsBound :
        bis = [pc |-> "idle", expression |-> e, a |-> ab[1], b |-> ab[2],
               tolerance |-> tol, maxIterations |-> n]
  /\ scan = IdleScan
  /\ newton = IdleNewton

\* lines 156-172: compile, evaluate the ends, test the sign change
bisectionCalled(call) ==
  LET compiled == compile(call.expression)
      entered(s) ==
        IF NoSignChange(s)
        THEN [pc |-> "done", compiled |-> compiled, s |-> s, passes |-> 0,
              result |-> bisectionNoSignChange]
        ELSE [pc |-> "loop", compiled |-> compiled, s |-> s, passes |-> 0,
              result |-> NoResult]
  IN  IF IsThrown(compiled)
      THEN [pc |-> "done", compiled |-> compiled, s |-> [returned |-> FALSE], passes |-> 0,
            result |-> bisectionSettle(compiled)]
      ELSE Apply(entered, bisectionEnter(compiled, call.a, call.b))

BisectionCall ==
  /\ mode = "bisection"
  /\ bis.pc = "idle"
  /\ bis' = bisectionCalled(bis) @@ bis
  /\ UNCHANGED <<mode, ui, scan, newton, calc, solverVars>>

\* lines 175-193: one pass of the loop
BisectionPass ==
  /\ mode = "bisection"
  /\ bis.pc = "loop"
  /\ bisectionContinues(bis.s, bis.maxIterations)
  /\ bis' = [bis EXCEPT !.s = bisectionIter(bis.compiled, bis.tolerance, bis.s),
                        !.passes = bis.passes + 1]
  /\ UNCHANGED <<mode, ui, scan, newton, calc, solverVars>>

\* lines 180-184 and 196-200: the loop has ended and bisection returns
BisectionReturn ==
  /\ mode = "bisection"
  /\ bis.pc = "loop"
  /\ ~bisectionContinues(bis.s, bis.maxIterations)
  /\ bis' = [bis EXCEPT !.pc = "done", !.result = bisectionSettle(bisectionResult(bis.s))]
  /\ UNCHANGED <<mode, ui, scan, newton, calc, solverVars>>

BisectNext == BisectionCall \/ BisectionPass \/ BisectionReturn

BisectSpec == BisectInit /\ [][BisectNext]_vars

(***************************************************************************)
(* findAllRoots, sample by sample                                          *)
(***************************************************************************)
ScanExpressions ==
  { Plain("lin", 0), Plain("lin", 3), Plain("quad", 1), Plain("quad", 101), Plain("sq", 2),
    Plain("const", 0), Plain("log", 1), Plain("bad", 0) }

ScanRanges == { <<0, 6>>, <<0, 12>>, <<100, 106>>, <<6, 0>> }

\* the process before the call of findAllRoots
ScanInit ==
  /\ mode = "findAllRoots"
  /\ hasWindow = FALSE
  /\ input = NoInput
  /\ SolverIdle
  /\ calc = IdleCalc
  /\ ui = IdleUi
  /\ bis = IdleBis
  /\ \E e \in ScanExpressions, r \in ScanRanges, tol \in Tolerances,
        n \in 1..MaxScanResolution :
        scan = [pc |-> "idle", expression |-> e, rangeStart |-> r[1], rangeEnd |-> r[2],
                tolerance |-> tol, scanResolution |-> n]
  /\ newton = IdleNewton

\* lines 220-227: compile, and the first sample
findAllRootsCalled(call) ==
  LET compiled == compile(call.expression)
  IN  IF IsThrown(compiled)
      THEN [pc |-> "done", compiled |-> compiled, s |-> [roots |-> <<>>],
            result |-> findAllRootsSettle(compiled)]
      ELSE [pc |-> "loop", compiled |-> compiled,
            s |-> scanEnter(compiled, call.rangeStart, call.rangeEnd, call.scanResolution),
            result |-> NoResult]

FindAllRootsCall ==
  /\ mode = "findAllRoots"
  /\ scan.pc = "idle"
  /\ scan' = findAllRootsCalled(scan) @@ scan
  /\ UNCHANGED <<mode, ui, bis, newton, calc, solverVars>>

\* lines 230-254: one pass of the scan, the bisection of line 236 included
ScanPass ==
  /\ mode = "findAllRoots"
  /\ scan.pc = "loop"
  /\ scanContinues(scan.s, scan.scanResolution)
  /\ scan' = [scan EXCEPT !.s = scanIter(scan.expression, scan.compiled, scan.rangeStart,
                                         scan.tolerance, scan.s)]
  /\ UNCHANGED <<mode, ui, bis, newton, calc, solverVars>>

\* lines 257-260: the roots are sorted and returned
ScanReturn ==
  /\ mode = "findAllRoots"
  /\ scan.pc = "loop"
  /\ ~scanContinues(scan.s, scan.scanResolution)
  /\ scan' = [scan EXCEPT !.pc = "done", !.result = findAllRootsSettle(scanResult(scan.s))]
  /\ UNCHANGED <<mode, ui, bis, newton, calc, solverVars>>

ScanNext == FindAllRootsCall \/ ScanPass \/ ScanReturn

ScanSpec == ScanInit /\ [][ScanNext]_vars

(***************************************************************************)
(* newtonRaphson, pass by pass                                             *)
(***************************************************************************)
NewtonExpressions ==
  { Plain("lin", 3), Plain("sq", 2), Plain("const", 5), Plain("log", 1), Plain("bad", 0),
    Text("sq", 2, "zeroform", 0 - 1) }    \* ((x - 2)^2) - (-1), which has no zero

NewtonGuesses == {0, 3, 10}

\* the process before the call of newtonRaphson
NewtonInit ==
  /\ mode = "newtonRaphson"
  /\ hasWindow = FALSE
  /\ input = NoInput
  /\ SolverIdle
  /\ calc = IdleCalc
  /\ ui = IdleUi
  /\ bis = IdleBis
  /\ scan = IdleScan
  /\ \E e \in NewtonExpressions, g \in NewtonGuesses, tol \in Tolerances,
        n \in 0..MaxIterationsBound :
        newton = [pc |-> "idle", expression |-> e, initialGuess |-> g,
                  tolerance |-> tol, maxIterations |-> n]

\* lines 99-104: compile, and the state before the loop
newtonCalled(call) ==
  LET compiled == compile(call.expression)
  IN  IF IsThrown(compiled)
      THEN [pc |-> "done", compiled |-> compiled, s |-> [status |-> "thrown"],
            iterates |-> <<>>, evaluations |-> <<>>, result |-> newtonSettle(compiled)]
      ELSE [pc |-> "loop", compiled |-> compiled, s |-> newtonEnter(call.initialGuess),
            iterates |-> <<>>, evaluations |-> <<>>, result |-> NoResult]

NewtonCall ==
  /\ mode = "newtonRaphson"
  /\ newton.pc = "idle"
  /\ newton' = newtonCalled(newton) @@ newton
  /\ UNCHANGED <<mode, ui, bis, scan, calc, solverVars>>

\* lines 107-128: one pass of the loop; iterates holds the x at which the
\* passes have evaluated f, evaluations the arguments of the calls of
\* evaluateCompiled of each pass
NewtonPass ==
  /\ mode = "newtonRaphson"
  /\ newton.pc = "loop"
  /\ newtonContinues(newton.s, newton.maxIterations)
  /\ newton' = [newton EXCEPT !.s = newtonIter(newton.compiled, newton.tolerance, newton.s),
                              !.iterates = Append(newton.iterates, newton.s.x),
                              !.evaluations =
                                Append(newton.evaluations,
                                       newtonEvaluations(newton.compiled, newton.tolerance,
                                                         newton.s))]
  /\ UNCHANGED <<mode, ui, bis, scan, calc, solverVars>>

\* lines 112-116 and 131-136: the loop has ended and newtonRaphson returns
NewtonReturn ==
  /\ mode = "newtonRaphson"
  /\ newton.pc = "loop"
  /\ ~newtonContinues(newton.s, newton.maxIterations)
  /\ newton' = [newton EXCEPT !.pc = "done", !.result = newtonSettle(newtonResult(newton.s))]
  /\ UNCHANGED <<mode, ui, bis, scan, calc, solverVars>>

NewtonNext == NewtonCall \/ NewtonPass \/ NewtonReturn

NewtonSpec == NewtonInit /\ [][NewtonNext]_vars

(***************************************************************************)
(* CalculatorEngine: strings are sequences of characters                   *)
(***************************************************************************)
\* \d
Digit == {"0", "1", "2", "3", "4", "5", "6", "7", "8", "9"}
\* [a-zA-Z]
Letter ==
  {"a", "b", "c", "d", "e", "f", "g", "h", "i", "j", "k", "l", "m", "n", "o", "p", "q",
   "r", "s", "t", "u", "v", "w", "x", "y", "z", "A", "B", "C", "D", "E", "F", "G", "H",
   "I", "J", "K", "L", "M", "N", "O", "P", "Q", "R", "S", "T", "U", "V", "W", "X", "Y",
   "Z"}
\* \w
Word == Digit \cup Letter \cup {"_"}

\* \b in front of position i of s
BoundaryBefore(s, i) ==
  LET before == i > 1 /\ i - 1 <= Len(s) /\ s[i - 1] \in Word
      after == i >= 1 /\ i <= Len(s) /\ s[i] \in Word
  IN  before # after

\* the literal pattern stands in s at position i
LiteralAt(s, i, pattern) ==
  /\ i + Len(pattern) - 1 <= Len(s)
  /\ \A k \in 1..Len(pattern) : s[i + k - 1] = pattern[k]

\* s.replace(/<from>/g, to) for one character
RECURSIVE replaceCharacter(_, _, _)
replaceCharacter(s, from, to) ==
  IF s = <<>> THEN <<>>
  ELSE (IF Head(s) = from THEN to ELSE <<Head(s)>>) \o replaceCharacter(Tail(s), from, to)

\* s.replace(/\b<pattern>/g, to), or /\b<pattern>\b/g when wordEnd, read from
\* position i on; out is what has been produced
RECURSIVE replaceWord(_, _, _, _, _, _)
replaceWord(s, i, out, pattern, wordEnd, to) ==
  IF i > Len(s) THEN out
  ELSE IF /\ LiteralAt(s, i, pattern)
          /\ BoundaryBefore(s, i)
          /\ wordEnd => BoundaryBefore(s, i + Len(pattern))
       THEN replaceWord(s, i + Len(pattern), out \o to, pattern, wordEnd, to)
       ELSE replaceWord(s, i + 1, Append(out, s[i]), pattern, wordEnd, to)

\* s.replace(/(<first>)(<second>)/g, '$1*$2') for two classes of one character
RECURSIVE insertTimes(_, _, _, _, _)
insertTimes(s, i, out, first, second) ==
  IF i > Len(s) THEN out
  ELSE IF i < Len(s) /\ s[i] \in first /\ s[i + 1] \in second
       THEN insertTimes(s, i + 2, out \o <<s[i], "*", s[i + 1]>>, first, second)
       ELSE insertTimes(s, i + 1, Append(out, s[i]), first, second)

\* the end of the run of digits that starts at position i of s
RECURSIVE DigitsEnd(_, _)
DigitsEnd(s, i) == IF i < Len(s) /\ s[i + 1] \in Digit THEN DigitsEnd(s, i + 1) ELSE i

\* s.replace(/(\d+)!/g, 'factorial($1)')
RECURSIVE replaceFactorial(_, _, _)
replaceFactorial(s, i, out) ==
  IF i > Len(s) THEN out
  ELSE IF s[i] \in Digit
       THEN LET j == DigitsEnd(s, i)
                run == SubSeq(s, i, j)
            IN  IF j < Len(s) /\ s[j + 1] = "!"
                THEN replaceFactorial(s, j + 2,
                       out \o <<"f", "a", "c", "t", "o", "r", "i", "a", "l", "(">> \o run \o <<")">>)
                ELSE replaceFactorial(s, j + 1, out \o run)
       ELSE replaceFactorial(s, i + 1, Append(out, s[i]))

\* the characters U+00D7, U+00F7 and U+2212
TimesSign == "U+00D7"
DivisionSign == "U+00F7"
MinusSign == "U+2212"

\* lines 170-172 and 175: the display glyphs
replaceGlyphs(expr) ==
  replaceCharacter(replaceCharacter(replaceCharacter(replaceCharacter(expr,
    TimesSign, <<"*">>), DivisionSign, <<"/">>), MinusSign, <<"-">>), "^", <<"^">>)

\* lines 178, 181 and 184: the aliases
replaceAliases(expr) ==
  LET tau == replaceWord(expr, 1, <<>>, <<"t", "a", "u">>, TRUE, <<"(", "2", "*", "p", "i", ")">>)
      ln == replaceWord(tau, 1, <<>>, <<"l", "n", "(">>, FALSE, <<"l", "o", "g", "(">>)
  IN  replaceWord(ln, 1, <<>>, <<"l", "o", "g", "1", "0", "(">>, FALSE,
                  <<"l", "o", "g", "1", "0", "(">>)

\* lines 187-189: implicit multiplication
implicitMultiplication(expr) ==
  LET digitThenName == insertTimes(expr, 1, <<>>, Digit, Letter \cup {"("})
      closeThenDigit == insertTimes(digitThenName, 1, <<>>, {")"}, Digit)
  IN  insertTimes(closeThenDigit, 1, <<>>, {")"}, Letter \cup {"("})

\* preprocessExpression(expr) for a string
preprocessExpression(expr) ==
  replaceFactorial(implicitMultiplication(replaceAliases(replaceGlyphs(expr))), 1, <<>>)

(***************************************************************************)
(* CalculatorEngine: the numbers that are displayed.  A finite number is   *)
(* +-d.ddd * 10^exp: digits holds its significant digits (none for 0, no   *)
(* leading and no trailing zero), exp its decimal exponent.  The numbers   *)
(* of the model have fewer digits than the formats keep, so no format      *)
(* rounds.                                                                 *)
(***************************************************************************)
Finite(neg, digits, exp) == [kind |-> "finite", neg |-> neg, digits |-> digits, exp |-> exp]
Zero == Finite(FALSE, <<>>, 0)
PlusInfinity == [kind |-> "Infinity", neg |-> FALSE, digits |-> <<>>, exp |-> 0]
MinusInfinity == [kind |-> "Infinity", neg |-> TRUE, digits |-> <<>>, exp |-> 0]
NotANumber == [kind |-> "NaN", neg |-> FALSE, digits |-> <<>>, exp |-> 0]

\* the character U+221E
InfinitySign == "U+221E"

\* the decimal digits of a natural number
RECURSIVE toDigits(_)
toDigits(n) ==
  IF n < Len(DigitCharacters) THEN <<DigitCharacters[n + 1]>>
  ELSE Append(toDigits(n \div Len(DigitCharacters)), DigitCharacters[(n % Len(DigitCharacters)) + 1])

Zeros(n) == [k \in 1..n |-> "0"]

\* the first n significant digits of num
SignificantDigits(num, n) ==
  LET d == IF num.digits = <<>> THEN <<"0">> ELSE num.digits
  IN  d \o Zeros(n - Len(d))

\* the sign toExponential and toPrecision write: none for 0 and for -0
SignOf(num) == IF num.neg /\ num.digits # <<>> THEN <<"-">> ELSE <<>>

\* num.toExponential(fractionDigits) for a finite num
toExponential(num, fractionDigits) ==
  LET m == SignificantDigits(num, fractionDigits + 1)
  IN  SignOf(num) \o <<Head(m)>>
        \o (IF fractionDigits > 0 THEN <<".">> \o Tail(m) ELSE <<>>)
        \o <<"e", IF num.exp < 0 THEN "-" ELSE "+">>
        \o toDigits(Magnitude(num.exp))

\* the exponent below which toPrecision writes the exponential form
FixedNotationExponent == 0 - 6

\* num.toPrecision(precision) for a finite num
toPrecision(num, precision) ==
  LET m == SignificantDigits(num, precision)
      e == num.exp
  IN  IF e < FixedNotationExponent \/ e >= precision THEN toExponential(num, precision - 1)
      ELSE IF e = precision - 1 THEN SignOf(num) \o m
      ELSE IF e >= 0
           THEN SignOf(num) \o SubSeq(m, 1, e + 1) \o <<".">> \o SubSeq(m, e + 2, precision)
           ELSE SignOf(num) \o <<"0", ".">> \o Zeros(0 - (e + 1)) \o m

\* the end of the run of zeros that starts at position i of s (i - 1: none)
RECURSIVE ZerosEnd(_, _)
ZerosEnd(s, i) == IF i <= Len(s) /\ s[i] = "0" THEN ZerosEnd(s, i + 1) ELSE i - 1

\* the end of a match of /\.?0+$/ (beforeExponent: of the \.?0+ of /\.?0+e/)
\* that starts at position i of s; 0 when there is none
MatchEnd(s, i, beforeExponent) ==
  LET z == IF s[i] = "." THEN i + 1 ELSE i
      j == ZerosEnd(s, z)
  IN  IF /\ j >= z
         /\ IF beforeExponent THEN j < Len(s) /\ s[j + 1] = "e" ELSE j = Len(s)
      THEN j ELSE 0

\* s.replace(/\.?0+$/, '') and s.replace(/\.?0+e/, 'e'): the first match goes
stripZeros(s, beforeExponent) ==
  LET starts == {i \in 1..Len(s) : MatchEnd(s, i, beforeExponent) # 0}
  IN  IF starts = {} THEN s
      ELSE LET i == CHOOSE k \in starts : \A l \in starts : k <= l
           IN  SubSeq(s, 1, i - 1) \o SubSeq(s, MatchEnd(s, i, beforeExponent) + 1, Len(s))

\* s.includes(c)
includes(s, c) == \E k \in 1..Len(s) : s[k] = c

\* line 249
Precision == 14
\* line 244
ExponentialDigits == 10
\* line 243: 1e15 and 1e-10
LargeExponent == 15
SmallExponent == 10

\* a format that keeps the digits toPrecision wrote
stripNothing(str) == str

\* lines 251-258
strip(str) ==
  LET fixed == IF includes(str, ".") THEN stripZeros(str, FALSE) ELSE str
  IN  IF includes(fixed, "e") THEN stripZeros(fixed, TRUE) ELSE fixed

\* formatNumber(num)
formatNumber(num) ==
  IF num.kind = "Infinity" THEN (IF num.neg THEN <<"-", InfinitySign>> ELSE <<InfinitySign>>)
  ELSE IF num.kind = "NaN" THEN <<"N", "a", "N">>
  ELSE IF num.digits # <<>> /\ (num.exp >= LargeExponent \/ num.exp < 0 - SmallExponent)
       THEN stripZeros(toExponential(num, ExponentialDigits), TRUE)
  ELSE strip(toPrecision(num, Precision))

(***************************************************************************)
(* CalculatorEngine: the values of the library.  type is what math.typeOf  *)
(* gives; re holds a number or a BigNumber, re and im a Complex, text a    *)
(* string or the entries of a matrix.                                      *)
(***************************************************************************)
Value(type, re, im, text) == [type |-> type, re |-> re, im |-> im, text |-> text]
NumberValue(num) == Value("number", num, Zero, <<>>)
BigNumberValue(num) == Value("BigNumber", num, Zero, <<>>)
ComplexValue(re, im) == Value("Complex", re, im, <<>>)
BooleanValue(b) == Value("boolean", IF b THEN Finite(FALSE, <<"1">>, 0) ELSE Zero, Zero, <<>>)
StringValue(text) == Value("string", Zero, Zero, text)
MatrixValue(text) == Value("DenseMatrix", Zero, Zero, text)
Undefined == Value("undefined", Zero, Zero, <<>>)

\* the whole number 1..9
Whole(d) == Finite(FALSE, <<DigitCharacters[d + 1]>>, 0)

\* the position of the first c in s, Len(s) + 1 when there is none
PositionOf(s, c) ==
  IF includes(s, c) THEN CHOOSE k \in 1..Len(s) : s[k] = c /\ \A l \in 1..(k - 1) : s[l] # c
  ELSE Len(s) + 1

RECURSIVE dropLeadingZeros(_)
dropLeadingZeros(s) == IF s # <<>> /\ Head(s) = "0" THEN dropLeadingZeros(Tail(s)) ELSE s

RECURSIVE dropTrailingZeros(_)
dropTrailingZeros(s) ==
  IF s # <<>> /\ s[Len(s)] = "0" THEN dropTrailingZeros(SubSeq(s, 1, Len(s) - 1)) ELSE s

\* the number a string s in decimal notation denotes, as Number(s) and the
\* parser of the library read it: [-]ddd[.ddd][e(+|-)dd]
parseNumber(s) ==
  LET neg == s # <<>> /\ Head(s) = "-"
      body == IF neg THEN Tail(s) ELSE s
      mantissa == SubSeq(body, 1, PositionOf(body, "e") - 1)
      exponent == SubSeq(body, PositionOf(body, "e") + 1, Len(body))
      e == IF exponent = <<>> THEN 0
           ELSE IF Head(exponent) = "-" THEN 0 - digitsValue(Tail(exponent))
           ELSE digitsValue(Tail(exponent))
      whole == SubSeq(mantissa, 1, PositionOf(mantissa, ".") - 1)
      fraction == SubSeq(mantissa, PositionOf(mantissa, ".") + 1, Len(mantissa))
      all == whole \o fraction
      significant == dropLeadingZeros(all)
  IN  IF significant = <<>> THEN Zero
      ELSE Finite(neg, dropTrailingZeros(significant),
                  Len(whole) - 1 - (Len(all) - Len(significant)) + e)

\* the position of the last significant digit of num
lastPlace(num) == num.exp - Len(num.digits) + 1

RECURSIVE powerOfTen(_)
powerOfTen(n) == IF n = 0 THEN 1 ELSE Len(DigitCharacters) * powerOfTen(n - 1)

\* the digits of num as a whole number of units of 10^place
unitsAt(num, place) == digitsValue(num.digits) * powerOfTen(lastPlace(num) - place)

\* math.add of two BigNumbers that are not negative: decimal addition, exact
\* within the 64 digits of the configuration (lines 11-14)
bigNumberAdd(a, b) ==
  IF a.digits = <<>> THEN b
  ELSE IF b.digits = <<>> THEN a
  ELSE LET place == IF lastPlace(a) < lastPlace(b) THEN lastPlace(a) ELSE lastPlace(b)
           sum == toDigits(unitsAt(a, place) + unitsAt(b, place))
       IN  Finite(FALSE, dropTrailingZeros(sum), place + Len(sum) - 1)

\* text is a decimal literal without sign and exponent
IsLiteral(text) ==
  /\ text # <<>>
  /\ \A k \in 1..Len(text) : text[k] \in Digit \cup {"."}
  /\ \E k \in 1..Len(text) : text[k] \in Digit

\* text is literal + literal, the operator between two spaces
IsSum(text) ==
  LET p == PositionOf(text, " ")
  IN  /\ p + 2 <= Len(text)
      /\ SubSeq(text, p, p + 2) = <<" ", "+", " ">>
      /\ IsLiteral(SubSeq(text, 1, p - 1))
      /\ IsLiteral(SubSeq(text, p + 3, Len(text)))

\* the value of literal + literal: with number: 'BigNumber' (line 12) the
\* parser reads each literal as a BigNumber
evaluateSum(text) ==
  LET p == PositionOf(text, " ")
  IN  BigNumberValue(bigNumberAdd(parseNumber(SubSeq(text, 1, p - 1)),
                                  parseNumber(SubSeq(text, p + 3, Len(text)))))

\* an EvaluationScope: the value of x, or no variable at all
NoScope == [x |-> Undefined]
ScopeWith(num) == [x |-> NumberValue(num)]

\* math.parse of a preprocessed text: the texts of the model that are no
\* expression are rejected
mathParse(text) ==
  IF text = <<"2", "+">> THEN Throws("SyntaxError: Unexpected end of expression")
  ELSE [code |-> text]

\* code.evaluate(scope) for the texts of the model
codeEvaluate(compiled, scope) ==
  LET text == compiled.code
  IN  CASE IsSum(text) -> evaluateSum(text)
        [] text = <<"1", "+", "2">> -> BigNumberValue(Whole(3))
        [] text = <<"2", "*", "3">> -> BigNumberValue(Whole(6))
        [] text = <<"2", "*", "(", "3", ")">> -> BigNumberValue(Whole(6))
        [] text = <<"f", "a", "c", "t", "o", "r", "i", "a", "l", "(", "3", ")">> ->
             BigNumberValue(Whole(6))
        [] text = <<"1", "/", "0">> -> BigNumberValue(PlusInfinity)
        [] text = <<"0", "/", "0">> -> BigNumberValue(NotANumber)
        [] text = <<"i">> -> ComplexValue(Zero, Whole(1))
        [] text = <<"2", ">", "1">> -> BooleanValue(TRUE)
        [] text = <<"[", "1", ",", "2", "]">> -> MatrixValue(<<"[", "1", ",", " ", "2", "]">>)
        [] text = <<"\"", "a", "\"">> -> StringValue(<<"a">>)
        [] text = <<"x">> ->
             IF scope.x = Undefined THEN Throws("Undefined symbol x") ELSE scope.x
        [] text = <<"2", "*", "l", "n", "(", "3", ")">> -> Throws("Undefined function ln")
        [] OTHER -> Throws("Undefined symbol")

\* math.evaluate(text, scope)
mathEvaluate(text, scope) ==
  LET compiled == mathParse(text)
  IN  IF IsThrown(compiled) THEN compiled ELSE codeEvaluate(compiled, scope)

\* math.typeOf(value)
mathTypeOf(value) == value.type

\* math.number(value): a number, a BigNumber and a boolean become a number,
\* a matrix is converted entry by entry and stays a matrix, a string that is
\* no numeral and a value of any other type are rejected
mathNumber(value) ==
  CASE value.type \in {"number", "BigNumber", "boolean"} -> NumberValue(value.re)
    [] value.type = "DenseMatrix" -> value
    [] value.type = "string" -> Throws("SyntaxError: String is not a valid number")
    [] OTHER -> Throws("TypeError: Unexpected type of argument in function number")

\* num === 0: true of 0 and of -0
IsZero(num) == num.kind = "finite" /\ num.digits = <<>>

\* num < 0
IsNegative(num) == num.kind # "NaN" /\ num.neg /\ ~IsZero(num)

\* Math.abs(num)
abs(num) == [num EXCEPT !.neg = FALSE]

\* a format that joins the parts with a plus sign whatever the sign of im
formatComplexJoined(complex) ==
  formatNumber(complex.re) \o <<" ", "+", " ">> \o formatNumber(complex.im) \o <<"i">>

\* lines 206-213: the Complex branch of formatResult
formatComplex(complex) ==
  IF IsZero(complex.im) THEN formatNumber(complex.re)
  ELSE IF IsZero(complex.re)
       THEN (IF IsNegative(complex.im) THEN <<"-">> \o formatNumber(abs(complex.im)) \o <<"i">>
             ELSE formatNumber(abs(complex.im)) \o <<"i">>)
  ELSE IF IsNegative(complex.im)
       THEN formatNumber(complex.re) \o <<" ", "-", " ">> \o formatNumber(abs(complex.im)) \o <<"i">>
  ELSE formatNumber(complex.re) \o <<" ", "+", " ">> \o formatNumber(abs(complex.im)) \o <<"i">>

\* formatResult(value)
formatResult(value) ==
  IF value = Undefined THEN <<"0">>
  ELSE IF mathTypeOf(value) = "Complex" THEN formatComplex(value)
  ELSE IF mathTypeOf(value) \in {"BigNumber", "number"} THEN formatNumber(value.re)
  ELSE IF mathTypeOf(value) = "boolean"
       THEN (IF IsZero(value.re) THEN <<"f", "a", "l", "s", "e">> ELSE <<"t", "r", "u", "e">>)
  ELSE value.text

\* CalculationResult; error is NoError when the field is not set
CalculationResult(value, numericValue, isComplex, error) ==
  [value |-> value, numericValue |-> numericValue, isComplex |-> isComplex, error |-> error]

\* a catch clause that lets the failure through
evaluateRethrow(e) == e

\* lines 125-132: the catch clause of evaluate
evaluateCatch(e) ==
  CalculationResult(<<"E", "r", "r", "o", "r">>, NumberValue(NotANumber), FALSE, ErrorMessage(e))

\* lines 108-124: the try block of evaluate; expression is the value the
\* caller passes, a string unless the caller is untyped
evaluateTry(expression, scope) ==
  IF expression.type # "string" THEN Throws("TypeError: expr.replace is not a function")
  ELSE LET result == mathEvaluate(preprocessExpression(expression.text), scope)
       IN  IF IsThrown(result) THEN result
           ELSE LET numericValue == IF result.type = "number" THEN result
                                    ELSE mathNumber(result)
                IN  IF IsThrown(numericValue) THEN numericValue
                    ELSE CalculationResult(formatResult(result), numericValue,
                                           mathTypeOf(result) = "Complex", NoError)

\* lines 106-133
evaluateSettle(r) == IF IsThrown(r) THEN evaluateCatch(r) ELSE r

\* evaluate(expression, scope)
evaluate(expression, scope) == Apply(evaluateSettle, evaluateTry(expression, scope))

\* lines 138-141: compile(expression) for a string
compileString(expression) == mathParse(preprocessExpression(expression))

\* lines 155-157: the try block of evaluateCompiled
evaluateCompiledTry(compiled, scope) ==
  LET result == codeEvaluate(compiled, scope)
  IN  IF IsThrown(result) THEN result
      ELSE IF result.type = "number" THEN result
      ELSE mathNumber(result)

\* evaluateCompiled(compiled, scope) on the values of the library
evaluateCompiledValue(compiled, scope) ==
  LET r == evaluateCompiledTry(compiled, scope)
  IN  IF IsThrown(r) THEN NumberValue(NotANumber) ELSE r

(***************************************************************************)
(* CalculatorEngine: the functions given to math.import (lines 17-88).     *)
(* An argument is a real number written in halves (h stands for h / 2); a  *)
(* result is the class of a double: "NaN", "-Infinity", "negative",        *)
(* "zero", "positive" or "Infinity".  The functions of Math and the        *)
(* operators on doubles never throw; they are given by the class of their  *)
(* result on the arguments of the model, all of them within -pi .. pi.     *)
(***************************************************************************)
NonFinite == {"NaN", "-Infinity", "Infinity"}

\* the class of the number h / 2
ClassOf(h) == IF h < 0 THEN "negative" ELSE IF h = 0 THEN "zero" ELSE "positive"

\* a / b on doubles, by class (a zero is +0)
Quotient(a, b) ==
  IF a = "NaN" \/ b = "NaN" THEN "NaN"
  ELSE IF a \in NonFinite /\ b \in NonFinite THEN "NaN"
  ELSE IF a = "zero" /\ b = "zero" THEN "NaN"
  ELSE IF b \in NonFinite \/ a = "zero" THEN "zero"
  ELSE IF b = "zero" \/ a \in NonFinite
       THEN (IF (a \in {"negative", "-Infinity"}) = (b = "negative") THEN "Infinity"
             ELSE "-Infinity")
  ELSE IF (a = "negative") = (b = "negative") THEN "positive" ELSE "negative"

\* 1 / a
Reciprocal(a) == Quotient("positive", a)

\* Math.cos, Math.sin and Math.tan of h / 2, for |h / 2| < pi
MathCos(h) == IF Magnitude(h) <= 3 THEN "positive" ELSE "negative"
MathSin(h) == ClassOf(h)
MathTan(h) == Quotient(MathSin(h), MathCos(h))

\* Math.cosh, Math.sinh and Math.tanh of h / 2
MathCosh(h) == "positive"
MathSinh(h) == ClassOf(h)
MathTanh(h) == ClassOf(h)

\* Math.log of h / 2
MathLog(h) ==
  IF h < 0 THEN "NaN"
  ELSE IF h = 0 THEN "-Infinity"
  ELSE IF h < 2 THEN "negative"
  ELSE IF h = 2 THEN "zero"
  ELSE "positive"

\* lines 20-28
sec(x) == Reciprocal(MathCos(x))
csc(x) == Reciprocal(MathSin(x))
cot(x) == Reciprocal(MathTan(x))

\* lines 31-39: Math.acos(1 / x) and Math.asin(1 / x) are NaN unless
\* |1 / x| <= 1; 1 / 0 is Infinity
asec(x) == IF Magnitude(x) < 2 THEN "NaN" ELSE IF x = 2 THEN "zero" ELSE "positive"
acsc(x) == IF Magnitude(x) < 2 THEN "NaN" ELSE ClassOf(x)
acot(x) == IF x = 0 THEN "positive" ELSE ClassOf(x)

\* lines 42-50
sech(x) == Reciprocal(MathCosh(x))
csch(x) == Reciprocal(MathSinh(x))
coth(x) == Reciprocal(MathTanh(x))

\* lines 53-55: Math.log(1 / x + Math.sqrt(1 / (x * x) - 1))
asech(x) ==
  IF x = 0 THEN "Infinity"
  ELSE IF Magnitude(x) > 2 THEN "NaN"
  ELSE IF x = 2 THEN "zero"
  ELSE IF x < 0 THEN "NaN"
  ELSE "positive"

\* lines 56-58: Math.log(1 / x + Math.sqrt(1 / (x * x) + 1))
acsch(x) == IF x = 0 THEN "Infinity" ELSE ClassOf(x)

\* lines 59-61: 0.5 * Math.log((x + 1) / (x - 1))
acoth(x) ==
  IF x = 2 THEN "Infinity"
  ELSE IF x = 0 - 2 THEN "-Infinity"
  ELSE IF Magnitude(x) < 2 THEN "NaN"
  ELSE ClassOf(x)

\* math.combinations(n, k) and math.permutations(n, k): both reject an
\* argument that is negative or no whole number, and a k above n
mathCombinations(n, k) ==
  IF n < 0 \/ k < 0 \/ n % 2 # 0 \/ k % 2 # 0
  THEN Throws("TypeError: Positive integer value expected in function combinations")
  ELSE IF k > n THEN Throws("TypeError: k must be less than or equal to n")
  ELSE [class |-> "positive"]

mathPermutations(n, k) ==
  IF n < 0 \/ k < 0 \/ n % 2 # 0 \/ k % 2 # 0
  THEN Throws("TypeError: Positive integer value expected in function permutations")
  ELSE IF k > n THEN Throws("TypeError: second argument k must be less than or equal to first argument n")
  ELSE [class |-> "positive"]

\* lines 64-69
nCr(n, r) == mathCombinations(n, r)
nPr(n, r) == mathPermutations(n, r)

\* lines 72-74
logBase(x, base) == Quotient(MathLog(x), MathLog(base))

\* lines 77-85
percent(x) == ClassOf(x)
permille(x) == ClassOf(x)
permyriad(x) == ClassOf(x)

\* the names given to math.import
RegistryNames ==
  { "sec", "csc", "cot", "asec", "acsc", "acot", "sech", "csch", "coth", "asech", "acsch",
    "acoth", "nCr", "nPr", "logBase", "percent", "permille", "permyriad" }

\* the call name(x, y) of a function of the registry (y is not used by a
\* function of one argument): its value, or what it throws
registryCall(name, x, y) ==
  CASE name = "nCr" -> nCr(x, y)
    [] name = "nPr" -> nPr(x, y)
    [] name = "logBase" -> [class |-> logBase(x, y)]
    [] name = "sec" -> [class |-> sec(x)]
    [] name = "csc" -> [class |-> csc(x)]
    [] name = "cot" -> [class |-> cot(x)]
    [] name = "asec" -> [class |-> asec(x)]
    [] name = "acsc" -> [class |-> acsc(x)]
    [] name = "acot" -> [class |-> acot(x)]
    [] name = "sech" -> [class |-> sech(x)]
    [] name = "csch" -> [class |-> csch(x)]
    [] name = "coth" -> [class |-> coth(x)]
    [] name = "asech" -> [class |-> asech(x)]
    [] name = "acsch" -> [class |-> acsch(x)]
    [] name = "acoth" -> [class |-> acoth(x)]
    [] name = "percent" -> [class |-> percent(x)]
    [] name = "permille" -> [class |-> permille(x)]
    [] name = "permyriad" -> [class |-> permyriad(x)]

(***************************************************************************)
(* The loops of newtonRaphson and findAllRoots, run to their end: the call *)
(* is synchronous, so a call that can take a step takes it                 *)
(***************************************************************************)
LoopInit == ScanInit \/ NewtonInit

LoopNext == ScanNext \/ NewtonNext

LoopSpec == LoopInit /\ [][LoopNext]_vars /\ WF_vars(LoopNext)

(***************************************************************************)
(* CalculatorEngine, call by call                                          *)
(***************************************************************************)
\* the pieces an input string of preprocessExpression is put together from
Fragments ==
  { <<"2">>, <<"x">>, <<"t", "a", "u">>, <<"l", "n", "(">>,
    <<"l", "o", "g", "1", "0", "(">>, <<")">>, <<"!">>, <<TimesSign>> }

RECURSIVE Concat(_)
Concat(pieces) == IF pieces = <<>> THEN <<>> ELSE Head(pieces) \o Concat(Tail(pieces))

Strings == {Concat(pieces) : pieces \in UNION {[1..n -> Fragments] : n \in 0..MaxFragments}}

\* the significant digits of the numbers given to formatNumber
MantissaDigits == {"0", "1", "2", "9"}
Mantissas ==
  {m \in UNION {[1..n -> MantissaDigits] : n \in 1..MaxDigits} : m[1] # "0" /\ m[Len(m)] # "0"}

Numbers ==
  {Zero, PlusInfinity, MinusInfinity, NotANumber}
    \cup {Finite(neg, m, e) : neg \in BOOLEAN, m \in Mantissas,
                              e \in (0 - MaxSmallExponent)..MaxLargeExponent}

\* the strings given to evaluate and to compile
EvaluateTexts ==
  { <<"1", "+", "2">>, <<"2", TimesSign, "3">>, <<"2", "(", "3", ")">>, <<"3", "!">>,
    <<"1", "/", "0">>, <<"0", "/", "0">>, <<"i">>, <<"2", ">", "1">>,
    <<"[", "1", ",", "2", "]">>, <<"\"", "a", "\"">>, <<"x">>,
    <<"2", "l", "n", "(", "3", ")">>, <<"2", "+">>,
    <<"0", ".", "1", " ", "+", " ", "0", ".", "2">>,
    <<"0", ".", "7", " ", "+", " ", "0", ".", "3">>,
    <<"1", "9", " ", "+", " ", "2", ".", "0", "5">> }

\* what a caller passes as expression: a string, or nothing
Expressions == {StringValue(t) : t \in EvaluateTexts} \cup {Undefined}

Scopes == {NoScope} \cup {ScopeWith(v) : v \in {Whole(5), Finite(TRUE, <<"2">>, 0 - SmallExponent)}}

\* what compile returns for the strings it accepts
CompiledExpressions == {c \in {compileString(t) : t \in EvaluateTexts} : ~IsThrown(c)}

\* the parts of the complex values given to formatResult: 0, -0, 2, -3, 1.5,
\* -2e-11, NaN and the infinities
Parts ==
  { Zero, Finite(TRUE, <<>>, 0), Whole(2), Finite(TRUE, <<"3">>, 0), Finite(FALSE, <<"1", "5">>, 0),
    Finite(TRUE, <<"2">>, 0 - 11), NotANumber, PlusInfinity, MinusInfinity }

\* the values given to formatResult: complex and real
Values == {ComplexValue(re, im) : re \in Parts, im \in Parts} \cup {NumberValue(re) : re \in Parts}

\* the arguments given to the functions of the registry, in halves: -2, -1,
\* 0, 1/2, 1, 2 and 5/2
Arguments == {0 - 4, 0 - 2, 0, 1, 2, 4, 5}

\* the process before the call of a function of CalculatorEngine
CalcInit ==
  /\ mode = "calculator"
  /\ ui = IdleUi
  /\ hasWindow = FALSE
  /\ input = NoInput
  /\ SolverIdle
  /\ bis = IdleBis
  /\ scan = IdleScan
  /\ newton = IdleNewton
  /\ \/ \E e \in Strings :
           calc = [fn |-> "preprocessExpression", pc |-> "idle", arg |-> e, outputs |-> <<>>]
     \/ \E v \in Numbers :
           calc = [fn |-> "formatNumber", pc |-> "idle", arg |-> v, outputs |-> <<>>]
     \/ \E e \in Expressions, s \in Scopes :
           calc = [fn |-> "evaluate", pc |-> "idle",
                   arg |-> [expression |-> e, scope |-> s], outputs |-> <<>>]
     \/ \E c \in CompiledExpressions, s \in Scopes :
           calc = [fn |-> "evaluateCompiled", pc |-> "idle",
                   arg |-> [compiled |-> c, scope |-> s], outputs |-> <<>>]
     \/ \E v \in Values :
           calc = [fn |-> "formatResult", pc |-> "idle", arg |-> v, outputs |-> <<>>]
     \/ \E name \in RegistryNames, x \in Arguments, y \in Arguments :
           calc = [fn |-> "registry", pc |-> "idle",
                   arg |-> [name |-> name, x |-> x, y |-> y], outputs |-> <<>>]

\* preprocessExpression(expr); a later call is given the string the call
\* before it returned
Preprocess ==
  /\ mode = "calculator"
  /\ calc.fn = "preprocessExpression"
  /\ Len(calc.outputs) < MaxPasses
  /\ calc' = [calc EXCEPT !.pc = "done",
                          !.outputs = Append(calc.outputs,
                             preprocessExpression(IF calc.outputs = <<>> THEN calc.arg
                                                  ELSE calc.outputs[Len(calc.outputs)]))]
  /\ UNCHANGED <<mode, ui, bis, scan, newton, solverVars>>

\* formatNumber(num)
FormatNumber ==
  /\ mode = "calculator"
  /\ calc.fn = "formatNumber"
  /\ calc.pc = "idle"
  /\ calc' = [calc EXCEPT !.pc = "done", !.outputs = <<formatNumber(calc.arg)>>]
  /\ UNCHANGED <<mode, ui, bis, scan, newton, solverVars>>

\* evaluate(expression, scope)
Evaluate ==
  /\ mode = "calculator"
  /\ calc.fn = "evaluate"
  /\ calc.pc = "idle"
  /\ calc' = [calc EXCEPT !.pc = "done",
                          !.outputs = <<evaluate(calc.arg.expression, calc.arg.scope)>>]
  /\ UNCHANGED <<mode, ui, bis, scan, newton, solverVars>>

\* evaluateCompiled(compiled, scope)
EvaluateCompiled ==
  /\ mode = "calculator"
  /\ calc.fn = "evaluateCompiled"
  /\ calc.pc = "idle"
  /\ calc' = [calc EXCEPT !.pc = "done",
                          !.outputs = <<evaluateCompiledValue(calc.arg.compiled, calc.arg.scope)>>]
  /\ UNCHANGED <<mode, ui, bis, scan, newton, solverVars>>

\* formatResult(value)
FormatResult ==
  /\ mode = "calculator"
  /\ calc.fn = "formatResult"
  /\ calc.pc = "idle"
  /\ calc' = [calc EXCEPT !.pc = "done", !.outputs = <<formatResult(calc.arg)>>]
  /\ UNCHANGED <<mode, ui, bis, scan, newton, solverVars>>

\* a call of a function of the registry
CallRegistry ==
  /\ mode = "calculator"
  /\ calc.fn = "registry"
  /\ calc.pc = "idle"
  /\ calc' = [calc EXCEPT !.pc = "done",
                          !.outputs = <<registryCall(calc.arg.name, calc.arg.x, calc.arg.y)>>]
  /\ UNCHANGED <<mode, ui, bis, scan, newton, solverVars>>

CalcNext ==
  Preprocess \/ FormatNumber \/ Evaluate \/ EvaluateCompiled \/ FormatResult \/ CallRegistry

CalcSpec == CalcInit /\ [][CalcNext]_vars

(***************************************************************************)
(* The EquationSolver component.  A handler of a user event and a          *)
(* completion of the module loader run one at a time, and only when no     *)
(* continuation is ready; the continuations of awaits run in the order in  *)
(* which their promises were settled.  A call of handleSolve runs from one *)
(* await to the next in one step.                                          *)
(***************************************************************************)
\* what the input field holds: an equation and what n.solve does with it
Typed(equation, solved) == [equation |-> equation, solved |-> solved]

\* the empty input field
NothingTyped == Typed(Plain("const", 0), [solutions |-> <<>>])

\* x^2 = 16, which the backend solves, and x - 2 = 2, which is left to the scan
TypedEquations ==
  { Typed(Equation("sq", 0, 16), [solutions |-> <<Solution(<<"4">>), Solution(<<"-", "4">>)>>]),
    Typed(Equation("lin", 2, 2), [solutions |-> <<>>]) }

\* lines 346-350: the options handleSolve passes
handleSolveOptions(rangeStart, rangeEnd) ==
  Options({"rangeStart", "rangeEnd", "tolerance"}, rangeStart, rangeEnd, DefaultTolerance)

\* a call of handleSolve for the equation typed, at position pc
Request(typed, pc, n) ==
  [typed |-> typed, pc |-> pc, n |-> n, symbolicResult |-> NoResult, result |-> NoResult,
   log |-> <<>>]

\* lines 337-341: the state of the component before any event
ComponentInit ==
  /\ mode = "component"
  /\ hasWindow = TRUE
  /\ input = NoInput
  /\ SolverIdle
  /\ calc = IdleCalc
  /\ bis = IdleBis
  /\ scan = IdleScan
  /\ newton = IdleNewton
  /\ ui = [equation |-> NothingTyped, rangeStart |-> DefaultRangeStart,
           rangeEnd |-> DefaultRangeEnd, result |-> NoResult, isLoading |-> FALSE,
           requests |-> <<>>, queue |-> <<>>, waiting |-> <<<<>>, <<>>>>]

\* await import(m) in call c: the import of a loaded module is settled at
\* once, another one when the loader is done
awaitImport(u, mods, c, m) ==
  IF mods[m] = "loaded" THEN [u EXCEPT !.queue = Append(@, c)]
  ELSE [u EXCEPT !.waiting[m] = Append(@, c)]

\* lines 358-360: finally { setIsLoading(false) }
handleSolveFinally(u, c) == [u EXCEPT !.isLoading = FALSE]

\* line 496: the onChange of the input calls setEquation
TypeEquation ==
  /\ mode = "component"
  /\ ui.queue = <<>>
  /\ \E e \in TypedEquations \cup {NothingTyped} :
       /\ e # ui.equation
       /\ ui' = [ui EXCEPT !.equation = e]
  /\ UNCHANGED <<mode, bis, scan, newton, calc, solverVars>>

\* lines 343-351 and 281-291, 44, 25-27: handleSolve up to its first await
HandleSolve ==
  /\ ui.equation # NothingTyped
  /\ Len(ui.requests) < MaxRequests
  /\ LET c == Len(ui.requests) + 1
     IN  IF needsLoad(nerdamer, hasWindow)
         THEN /\ ui' = awaitImport([ui EXCEPT !.isLoading = TRUE,
                                              !.requests = Append(@, Request(ui.equation, "await1", "null"))],
                                   modules, c, 1)
              /\ modules' = startImport(modules, 1)
         ELSE /\ ui' = [ui EXCEPT !.isLoading = TRUE,
                                  !.requests = Append(@, Request(ui.equation, "loaded", nerdamer)),
                                  !.queue = Append(@, c)]
              /\ UNCHANGED modules
  /\ UNCHANGED <<mode, nerdamer, hasWindow, input, calls, loads, assigns, reassigned,
                 bis, scan, newton, calc>>

\* lines 505-506: the button, disabled while isLoading
Click ==
  /\ mode = "component"
  /\ ui.queue = <<>>
  /\ ~ui.isLoading
  /\ HandleSolve

\* lines 364-368 and 497: the Enter key in the input
PressEnter ==
  /\ mode = "component"
  /\ ui.queue = <<>>
  /\ HandleSolve

\* the loader has fetched module m: the imports that wait for it are settled
ModuleFetched(m) ==
  /\ mode = "component"
  /\ ui.queue = <<>>
  /\ modules[m] = "fetching"
  /\ modules' = [modules EXCEPT ![m] = "loaded"]
  /\ ui' = [ui EXCEPT !.queue = ui.waiting[m], !.waiting[m] = <<>>]
  /\ UNCHANGED <<mode, nerdamer, hasWindow, input, calls, loads, assigns, reassigned,
                 bis, scan, newton, calc>>

\* the loader could not fetch module m: the imports that wait for it are
\* rejected
ModuleFailed(m) ==
  /\ mode = "component"
  /\ ui.queue = <<>>
  /\ modules[m] = "fetching"
  /\ modules' = [modules EXCEPT ![m] = "none"]
  /\ ui' = [ui EXCEPT !.queue = ui.waiting[m], !.waiting[m] = <<>>,
                      !.requests = [c \in 1..Len(ui.requests) |->
                                      IF \E k \in 1..Len(ui.waiting[m]) : ui.waiting[m][k] = c
                                      THEN [ui.requests[c] EXCEPT !.pc = "rejected"]
                                      ELSE ui.requests[c]]]
  /\ UNCHANGED <<mode, nerdamer, hasWindow, input, calls, loads, assigns, reassigned,
                 bis, scan, newton, calc>>

\* the continuation that runs next belongs to a call at position pc
Running(pc) ==
  /\ mode = "component"
  /\ ui.queue # <<>>
  /\ ui.requests[Head(ui.queue)].pc = pc

\* line 27 has resolved and line 28 starts the second import
ResumeAfterImport1 ==
  /\ Running("await1")
  /\ LET c == Head(ui.queue)
     IN  ui' = awaitImport([ui EXCEPT !.queue = Tail(@), !.requests[c].pc = "await2"],
                           modules, c, 2)
  /\ modules' = startImport(modules, 2)
  /\ UNCHANGED <<mode, nerdamer, hasWindow, input, calls, loads, assigns, reassigned,
                 bis, scan, newton, calc>>

\* line 28 has resolved; lines 29 and 34 assign the handle and return it
ResumeAfterImport2 ==
  /\ Running("await2")
  /\ nerdamer' = "module"
  /\ LET c == Head(ui.queue)
     IN  ui' = [ui EXCEPT !.queue = Append(Tail(@), c), !.requests[c].pc = "loaded",
                          !.requests[c].n = "module"]
  /\ UNCHANGED <<mode, hasWindow, modules, input, calls, loads, assigns, reassigned,
                 bis, scan, newton, calc>>

\* lines 30-34: the catch clause of loadNerdamer returns the handle as it is
ResumeAfterRejection ==
  /\ Running("rejected")
  /\ LET c == Head(ui.queue)
     IN  ui' = [ui EXCEPT !.queue = Append(Tail(@), c), !.requests[c].pc = "loaded",
                          !.requests[c].n = loadNerdamerCatch(nerdamer).value]
  /\ UNCHANGED <<mode, bis, scan, newton, calc, solverVars>>

\* lines 45-87: solveSymbolic resumes with n and returns its result
ResumeSolveSymbolic ==
  /\ Running("loaded")
  /\ LET c == Head(ui.queue)
     IN  ui' = [ui EXCEPT !.queue = Append(Tail(@), c), !.requests[c].pc = "resumed",
                          !.requests[c].symbolicResult =
                             solveSymbolicLoaded(ui.requests[c].n, ui.requests[c].typed.equation,
                                                 ui.requests[c].typed.solved)]
  /\ UNCHANGED <<mode, bis, scan, newton, calc, solverVars>>

\* lines 292-304: solve resumes with the symbolic result and returns
ResumeSolve ==
  /\ Running("resumed")
  /\ LET c == Head(ui.queue)
     IN  ui' = [ui EXCEPT !.queue = Append(Tail(@), c),
                          !.requests[c] =
                             [solveResumed(ui.requests[c], ui.requests[c].typed.equation,
                                           handleSolveOptions(ui.rangeStart, ui.rangeEnd))
                                EXCEPT !.pc = "solved"]]
  /\ UNCHANGED <<mode, bis, scan, newton, calc, solverVars>>

\* lines 351 and 358-360: handleSolve resumes with the solution: setResult,
\* then setIsLoading(false)
ResumeHandleSolve ==
  /\ Running("solved")
  /\ LET c == Head(ui.queue)
     IN  ui' = handleSolveFinally([ui EXCEPT !.queue = Tail(@), !.requests[c].pc = "returned",
                                             !.result = ui.requests[c].result], c)
  /\ UNCHANGED <<mode, bis, scan, newton, calc, solverVars>>

ComponentNext ==
  \/ TypeEquation
  \/ Click
  \/ PressEnter
  \/ \E m \in 1..2 : ModuleFetched(m)
  \/ \E m \in 1..2 : ModuleFailed(m)
  \/ ResumeAfterImport1
  \/ ResumeAfterImport2
  \/ ResumeAfterRejection
  \/ ResumeSolveSymbolic
  \/ ResumeSolve
  \/ ResumeHandleSolve

ComponentSpec == ComponentInit /\ [][ComponentNext]_vars

(***************************************************************************)
(* The solver: a process exercises one of its entry points                 *)
(***************************************************************************)
Init == SolveInit \/ BisectInit \/ ScanInit \/ NewtonInit

Next == SolveNext \/ BisectNext \/ ScanNext \/ NewtonNext

Spec == Init /\ [][Next]_vars

(***************************************************************************)
(* Properties                                                              *)
(***************************************************************************)
InLog(call, event) == \E k \in 1..Len(call.log) : call.log[k] = event

\* a call of fn that has returned
Returned(c, fn) == mode = "solve" /\ calls[c].fn = fn /\ calls[c].pc = "done"

\* the zero form of an equation: its left side minus its right side
ZeroForm(equation) ==
  IF equation.form = "equation"
  THEN Text(equation.kind, equation.c, "zeroform", equation.rhs)
  ELSE equation

\* findAllRoots on the zero form over the range and with the tolerance of
\* the options, -100, 100 and 1e-10 where the options give none
ExpectedNumerical ==
  [i \in Inputs |->
     findAllRoots(ZeroForm(i.equation),
                  IF "rangeStart" \in i.options.given THEN i.options.rangeStart ELSE 0 - 100,
                  IF "rangeEnd" \in i.options.given THEN i.options.rangeEnd ELSE 100,
                  IF "tolerance" \in i.options.given THEN i.options.tolerance ELSE DefaultTolerance,
                  DefaultScanResolution)]

\* C1: solve returns the symbolic result as it is, method 'symbolic', and
\* never invokes findAllRoots, when solveSymbolic yields a root; otherwise it
\* returns the result of findAllRoots on the zero form over the range and with
\* the tolerance of the options (defaults -100, 100, 1e-10), method 'combined'.
SolveReturnsSymbolicOrScan ==
  \A c \in CallIds :
    Returned(c, "solve") =>
      IF Len(calls[c].symbolicResult.roots) > 0
      THEN /\ calls[c].result = calls[c].symbolicResult
           /\ calls[c].result.method = "symbolic"
           /\ ~InLog(calls[c], "numeric")
      ELSE /\ calls[c].result = ExpectedNumerical[input]
           /\ calls[c].result.method = "combined"
           /\ InLog(calls[c], "numeric")

\* one call of solve has returned symbolic roots and another the roots of
\* the scan
SolveReturnedBothWays ==
  \E c, d \in CallIds :
    /\ Returned(c, "solve") /\ Returned(d, "solve")
    /\ Len(calls[c].symbolicResult.roots) > 0 /\ calls[c].result.method = "symbolic"
    /\ calls[d].symbolicResult.roots = <<>> /\ calls[d].result.method = "combined"
    /\ Len(calls[d].result.roots) > 0

\* C2: within one call of solve the symbolic attempt has completed before
\* the numeric scan starts; the two never run interleaved.
SymbolicCompletesBeforeNumeric ==
  \A c \in CallIds :
    \A k \in 1..Len(calls[c].log) :
      calls[c].log[k] = "numeric" =>
        /\ k = Len(calls[c].log)
        /\ \E j \in 1..(k - 1) : calls[c].log[j] = "symbolic end"

\* a call of solve has gone through the symbolic attempt and then the scan
NumericAfterSymbolic ==
  \E c \in CallIds :
    calls[c].log = <<"symbolic start", "symbolic end", "numeric">>

\* C3: under any interleaving of calls the load is started at most once, the
\* handle is assigned at most once and is not written again once it is set.
InitializedAtMostOnce == loads <= 1 /\ assigns <= 1 /\ ~reassigned

Unavailable(c) ==
  mode = "solve" /\ calls[c].pc # "idle" /\ (~hasWindow \/ calls[c].load = "failed")

\* C5: when the capability cannot be loaded (no window, or the import
\* fails) solveSymbolic does not throw and returns no roots, method 'symbolic'
\* and an error; solve then runs findAllRoots and returns its result.
UnavailableFallsBackToScan ==
  \A c \in CallIds :
    Unavailable(c) =>
      /\ calls[c].pc # "rejected"
      /\ calls[c].pc \in {"resumed", "done"} =>
            /\ calls[c].symbolicResult.roots = <<>>
            /\ calls[c].symbolicResult.method = "symbolic"
            /\ calls[c].symbolicResult.error \notin {NoError, ""}
      /\ Returned(c, "solveSymbolic") => calls[c].result = calls[c].symbolicResult
      /\ Returned(c, "solve") =>
            /\ InLog(calls[c], "numeric")
            /\ calls[c].result = ExpectedNumerical[input]

\* a call of solve whose import failed has returned the roots of the scan
FailedImportFellBack ==
  \E c \in CallIds :
    /\ Returned(c, "solve") /\ calls[c].load = "failed"
    /\ calls[c].symbolicResult.error = "Symbolic solver not available"
    /\ Len(calls[c].result.roots) > 0

\* a result with no roots, the method tag and the error set
ErrorResult(r, method) ==
  ~IsThrown(r) /\ r.roots = <<>> /\ r.method = method /\ r.error \notin {NoError, ""}

\* C6: newtonRaphson, bisection, findAllRoots, solveSymbolic and solve never
\* throw: when the text cannot be compiled, or a step fails, each returns no
\* roots, its own method tag and the error set.
SolversNeverThrow ==
  /\ \A c \in CallIds :
       /\ calls[c].pc # "rejected"
       /\ calls[c].pc = "done" => ~IsThrown(calls[c].result)
       /\ (Returned(c, "solveSymbolic") /\ calls[c].n = "module" /\ IsThrown(input.solved)) =>
            ErrorResult(calls[c].result, "symbolic")
       /\ (Returned(c, "solve") /\ calls[c].symbolicResult.roots = <<>>
              /\ IsThrown(compile(ZeroForm(input.equation)))) =>
            ErrorResult(calls[c].result, "combined")
  /\ (mode = "bisection" /\ bis.pc = "done") =>
       /\ ~IsThrown(bis.result)
       /\ IsThrown(compile(bis.expression)) => ErrorResult(bis.result, "bisection")
  /\ (mode = "findAllRoots" /\ scan.pc = "done") =>
       /\ ~IsThrown(scan.result)
       /\ IsThrown(compile(scan.expression)) => ErrorResult(scan.result, "combined")
  /\ (mode = "newtonRaphson" /\ newton.pc = "done") =>
       /\ ~IsThrown(newton.result)
       /\ IsThrown(compile(newton.expression)) => ErrorResult(newton.result, "newton")

\* solve has returned an error result for a text that does not compile
SolveReturnedCompileError ==
  \E c \in CallIds :
    /\ Returned(c, "solve")
    /\ IsThrown(compile(ZeroForm(input.equation)))
    /\ calls[c].result.error = "SyntaxError"

\* bisection has been called with a text that compiles
BisectionCompiled ==
  mode = "bisection" /\ bis.pc # "idle" /\ ~IsThrown(bis.compiled)

\* f(a) * f(b) of the call of bisection
ProductOfEnds ==
  FMul(evaluateCompiled(bis.compiled, bis.a), evaluateCompiled(bis.compiled, bis.b))

SignChangeOrBoundaryRoot == ~isNaN(ProductOfEnds) /\ ProductOfEnds <= 0

\* C8: with f(a) * f(b) <= 0 bisection makes at most maxIterations passes
\* and returns one root, the midpoint of the current sub-interval, with no
\* error, also when neither convergence test was met; the iterations it
\* reports never exceed maxIterations.
BisectionReturnsWithinMaxIterations ==
  (BisectionCompiled /\ SignChangeOrBoundaryRoot) =>
    /\ bis.passes <= bis.maxIterations
    /\ bis.pc = "done" =>
         /\ bis.result.roots =
              <<roundToSignificant(FDivInt(FAdd(bis.s.left, bis.s.right), 2), SigFigures)>>
         /\ bis.result.method = "bisection"
         /\ bis.result.error = NoError
         /\ bis.result.iterations = bis.passes
         /\ bis.result.iterations <= bis.maxIterations

\* bisection has used all its passes without meeting a convergence test
BisectionRanOutOfPasses ==
  /\ BisectionCompiled /\ SignChangeOrBoundaryRoot
  /\ bis.pc = "done" /\ ~bis.s.returned
  /\ bis.maxIterations >= 2 /\ bis.passes = bis.maxIterations
  /\ Len(bis.result.roots) = 1

\* C9: once f(a) * f(b) <= 0 holds, f(a) = 0 and f(b) = 0 included,
\* f(left) * f(right) <= 0 at every iteration of bisection.
BracketKept ==
  (BisectionCompiled /\ SignChangeOrBoundaryRoot) =>
    ~FGt(FMul(evaluateCompiled(bis.compiled, bis.s.left),
              evaluateCompiled(bis.compiled, bis.s.right)), 0)

\* C10: the roots findAllRoots returns are ascending and no two of them are
\* within tolerance * 100 of each other, as they are stored.
RootsAscendingAndApart ==
  (mode = "findAllRoots" /\ scan.pc = "done" /\ ~IsThrown(scan.result)) =>
    \A j, k \in 1..Len(scan.result.roots) :
      j < k =>
        /\ scan.result.roots[j] <= scan.result.roots[k]
        /\ ~LtTolerance(MathAbs(FSub(scan.result.roots[j], scan.result.roots[k])),
                        100, 1, scan.tolerance)

\* findAllRoots has returned the roots of a text that compiles
ScanReturned ==
  mode = "findAllRoots" /\ scan.pc = "done" /\ ~IsThrown(scan.compiled)

\* the sample x_i = rangeStart + i * step
SampleAt(i) == FAdd(scan.rangeStart, FMul(i, scan.s.step))

\* f(x_i)
ValueAt(i) == evaluateCompiled(scan.compiled, SampleAt(i))

\* the returned roots hold a value within tolerance * 100 of v
ReturnedNear(v) ==
  \E k \in 1..Len(scan.result.roots) :
    LtTolerance(MathAbs(FSub(scan.result.roots[k], v)), 100, 1, scan.tolerance)

\* C11: for every sample x_i, i in 0..scanResolution, with |f(x_i)| <
\* tolerance the roots findAllRoots returns hold a value within
\* tolerance * 100 of x_i.
EverySampleZeroIsReturned ==
  ScanReturned =>
    \A i \in 0..scan.scanResolution :
      LtTolerance(MathAbs(ValueAt(i)), 1, 1, scan.tolerance) => ReturnedNear(SampleAt(i))

\* the scan has called bisection on x_(i-1)..x_i
RefinedAt(i) ==
  \E k \in 1..Len(scan.s.log) :
    /\ scan.s.log[k].ev = "bisect"
    /\ scan.s.log[k].a = SampleAt(i - 1)
    /\ scan.s.log[k].b = SampleAt(i)
    /\ \/ \E r \in 1..Len(scan.result.roots) :
            \/ /\ SampleAt(i - 1) <= scan.result.roots[r]
               /\ scan.result.roots[r] <= SampleAt(i)
            \/ /\ SampleAt(i) <= scan.result.roots[r]
               /\ scan.result.roots[r] <= SampleAt(i - 1)
       \/ Len(scan.s.log[k].result) > 0 /\ ReturnedNear(scan.s.log[k].result[1])

\* the values of x_(i-1) and x_i are finite and of strictly opposite sign
OppositeSigns(i) ==
  /\ isFinite(ValueAt(i - 1)) /\ isFinite(ValueAt(i))
  /\ Sign(ValueAt(i - 1)) * Sign(ValueAt(i)) = 0 - 1

SamplePositions == {k \in 1..Len(scan.s.log) : scan.s.log[k].ev = "sample"}

\* C13, as the code has it: the samples are evaluated in strictly increasing
\* index order, and the bisection of a sign change between x_(i-1) and x_i
\* runs right after x_i is evaluated, before the next sample.
RefinementFollowsItsSample ==
  (mode = "findAllRoots" /\ scan.pc \in {"loop", "done"} /\ ~IsThrown(scan.compiled)) =>
    /\ \A j, k \in SamplePositions : j < k => scan.s.log[j].i < scan.s.log[k].i
    /\ \A k \in 1..Len(scan.s.log) :
         scan.s.log[k].ev = "bisect" =>
           /\ k > 1
           /\ scan.s.log[k - 1].ev = "sample"
           /\ scan.s.log[k].a = SampleAt(scan.s.log[k - 1].i - 1)
           /\ scan.s.log[k].b = SampleAt(scan.s.log[k - 1].i)

\* a bisection has run between two samples of the scan
RefinedBetweenSamples ==
  /\ ScanReturned
  /\ \E k \in 2..(Len(scan.s.log) - 1) :
       /\ scan.s.log[k - 1].ev = "sample"
       /\ scan.s.log[k].ev = "bisect"
       /\ scan.s.log[k + 1].ev = "sample"

\* C13, as it is stated: no bisection starts before all scanResolution + 1
\* samples have been evaluated.
RefinementAfterFullScan ==
  (mode = "findAllRoots" /\ scan.pc \in {"loop", "done"} /\ ~IsThrown(scan.compiled)) =>
    \A k \in 1..Len(scan.s.log) :
      scan.s.log[k].ev = "bisect" =>
        \A i \in 0..scan.scanResolution :
          \E j \in 1..(k - 1) : scan.s.log[j].ev = "sample" /\ scan.s.log[j].i = i

\* C14: solve("x^3 - x = 0") with default options returns the roots
\* [-1, 0, 1], from the symbolic adapter as from the numeric fallback.
CubicHasThreeRoots ==
  \A c \in CallIds :
    (Returned(c, "solve") /\ input.equation = Equation("cubic", 0, 0)
       /\ input.options = NoOptions) =>
      calls[c].result.roots = <<0 - 1, 0, 1>>

\* newtonRaphson has returned for a text that compiles
NewtonReturned ==
  mode = "newtonRaphson" /\ newton.pc = "done" /\ ~IsThrown(newton.compiled)

\* |f(x_k)| < tolerance at the k-th iterate that was evaluated
MeetsTolerance(k) ==
  LtTolerance(MathAbs(evaluateCompiled(newton.compiled, newton.iterates[k])),
              1, 1, newton.tolerance)

\* C15: newtonRaphson returns a root exactly when an iterate x_i, i <
\* maxIterations, reached before any abort has |f(x_i)| < tolerance; it
\* returns that x_i rounded, no error and iterations = i + 1, the number of
\* iterates evaluated, which never exceeds maxIterations.
NewtonReturnsTheIterateThatMeetsTolerance ==
  NewtonReturned =>
    LET n == Len(newton.iterates)
    IN  /\ n <= newton.maxIterations
        /\ Len(newton.result.roots) > 0 <=> \E k \in 1..n : MeetsTolerance(k)
        /\ Len(newton.result.roots) > 0 =>
             /\ MeetsTolerance(n)
             /\ \A k \in 1..(n - 1) : ~MeetsTolerance(k)
             /\ newton.result.roots = <<roundToSignificant(newton.iterates[n], SigFigures)>>
             /\ newton.result.method = "newton"
             /\ newton.result.error = NoError
             /\ newton.result.iterations = n
             /\ newton.result.iterations <= newton.maxIterations

\* newtonRaphson has returned a root it reached by a Newton step
NewtonFoundAfterAStep ==
  /\ NewtonReturned
  /\ Len(newton.iterates) >= 2
  /\ Len(newton.result.roots) = 1
  /\ newton.result.iterations = Len(newton.iterates)

\* f at the last iterate that was evaluated is not finite
LastValueNotFinite ==
  /\ Len(newton.iterates) > 0
  /\ ~isFinite(evaluateCompiled(newton.compiled, newton.iterates[Len(newton.iterates)]))

\* at the last iterate f is finite and misses the tolerance, and the central
\* difference (f(x + h) - f(x - h)) / (2 * h), h one grid unit, has a magnitude
\* below tolerance * 0.01
LastDerivativeFlat ==
  /\ Len(newton.iterates) > 0
  /\ LET x == newton.iterates[Len(newton.iterates)]
     IN  /\ isFinite(evaluateCompiled(newton.compiled, x))
         /\ ~MeetsTolerance(Len(newton.iterates))
         /\ LtTolerance(MathAbs(FSub(evaluateCompiled(newton.compiled, FAdd(x, 1)),
                                      evaluateCompiled(newton.compiled, FSub(x, 1)))),
                         2, 100, newton.tolerance)

\* maxIterations iterates were evaluated and none met the tolerance
IteratesExhausted ==
  /\ Len(newton.iterates) = newton.maxIterations
  /\ \A k \in 1..Len(newton.iterates) : ~MeetsTolerance(k)

\* C16: newtonRaphson returns no roots and the error 'Did not converge' when
\* f at the current iterate is not finite, when the derivative has a
\* magnitude below tolerance * 0.01, and when maxIterations iterates were
\* evaluated without meeting the tolerance.
NewtonAbortsWithoutRoot ==
  (NewtonReturned /\ (LastValueNotFinite \/ LastDerivativeFlat \/ IteratesExhausted)) =>
    /\ newton.result.roots = <<>>
    /\ newton.result.method = "newton"
    /\ newton.result.error = "Did not converge"

\* newtonRaphson has given up on a flat derivative after a Newton step
NewtonGaveUpOnFlatDerivative ==
  /\ NewtonReturned /\ LastDerivativeFlat
  /\ Len(newton.iterates) >= 2
  /\ Len(newton.iterates) < newton.maxIterations
  /\ newton.result.error = "Did not converge"


\* a call of fn of CalculatorEngine that has returned
CalcReturned(fn) == mode = "calculator" /\ calc.fn = fn /\ calc.pc = "done"

\* C19: preprocessExpression is idempotent: given the string it returned, it
\* returns that string unchanged
PreprocessIsIdempotent ==
  CalcReturned("preprocessExpression") /\ Len(calc.outputs) >= 2
    => calc.outputs[2] = calc.outputs[1]

\* the call formatNumber(v) has returned, for a finite v with |v| < 1e15
FormattedBelowLargeExponent ==
  /\ CalcReturned("formatNumber")
  /\ calc.arg.kind = "finite"
  /\ calc.arg.exp < LargeExponent

\* C20: for a finite v with |v| < 1e15 the string formatNumber(v) returns
\* reads back as v
FormatNumberRoundTrip ==
  FormattedBelowLargeExponent => parseNumber(calc.outputs[1]) = calc.arg

\* the result of the call of evaluate that has returned
EvaluateResult == calc.outputs[1]

\* value 'Error', numericValue NaN, isComplex false
IsErrorResult(r) ==
  /\ r.value = <<"E", "r", "r", "o", "r">>
  /\ r.numericValue = NumberValue(NotANumber)
  /\ r.isComplex = FALSE

\* C17: evaluate returns a CalculationResult and never throws; a result with
\* the error field set has value 'Error', numericValue NaN and isComplex
\* false, and every failure inside the call ends in such a result
EvaluateNeverThrows ==
  CalcReturned("evaluate") =>
    /\ ~IsThrown(EvaluateResult)
    /\ EvaluateResult.error # NoError => IsErrorResult(EvaluateResult)
    /\ IsThrown(evaluateTry(calc.arg.expression, calc.arg.scope))
         => EvaluateResult.error # NoError

\* evaluate has returned the error result after the conversion of a complex
\* result to a number failed
EvaluateFailedInConversion ==
  /\ CalcReturned("evaluate")
  /\ calc.arg.expression = StringValue(<<"i">>)
  /\ EvaluateResult.error # NoError
  /\ IsErrorResult(EvaluateResult)

\* C18: evaluateCompiled returns a number, and NaN when the evaluation or the
\* conversion of its result fails
EvaluateCompiledReturnsNumber ==
  CalcReturned("evaluateCompiled") =>
    /\ ~IsThrown(calc.outputs[1])
    /\ calc.outputs[1].type = "number"
    /\ IsThrown(evaluateCompiledTry(calc.arg.compiled, calc.arg.scope))
         => calc.outputs[1] = NumberValue(NotANumber)

\* evaluate('0.1 + 0.2') has returned
EvaluatedTenthPlusFifth ==
  /\ CalcReturned("evaluate")
  /\ calc.arg.expression = StringValue(<<"0", ".", "1", " ", "+", " ", "0", ".", "2">>)

\* C21: evaluate('0.1 + 0.2') returns the display value '0.3' and no error;
\* the sum is the decimal 0.3, with no digit of a binary rounding error
DecimalSumDisplaysExactly ==
  EvaluatedTenthPlusFifth =>
    /\ EvaluateResult.value = <<"0", ".", "3">>
    /\ EvaluateResult.error = NoError
    /\ EvaluateResult.numericValue = NumberValue(Finite(FALSE, <<"3">>, 0 - 1))

\* the call has returned '0.3' for the variable-free sum
TenthPlusFifthDisplayed ==
  /\ EvaluatedTenthPlusFifth
  /\ calc.arg.scope = NoScope
  /\ EvaluateResult.value = <<"0", ".", "3">>

\* formatResult has returned for a complex value
FormattedComplex == CalcReturned("formatResult") /\ calc.arg.type = "Complex"

\* C22: formatResult of a complex value (re, im) is the format of re alone
\* when im is zero, the same as formatResult of the real value re; |im|i with
\* the sign of im when re is zero and im is not; and otherwise re + |im|i for
\* a positive and re - |im|i for a negative im, never with '+ -'
ComplexFormat ==
  FormattedComplex =>
    LET re == calc.arg.re
        im == calc.arg.im
        out == calc.outputs[1]
        magnitude == formatNumber(abs(im)) \o <<"i">>
    IN  /\ IsZero(im) => out = formatResult(NumberValue(re))
        /\ IsZero(re) /\ ~IsZero(im) =>
             out = (IF IsNegative(im) THEN <<"-">> ELSE <<>>) \o magnitude
        /\ ~IsZero(re) /\ ~IsZero(im) =>
             out = formatNumber(re) \o (IF IsNegative(im) THEN <<" ", "-", " ">>
                                        ELSE <<" ", "+", " ">>) \o magnitude
        /\ ~Contains(out, <<"+", " ", "-">>)

\* formatResult has returned '2 - 3i' for the value (2, -3)
NegativeImaginaryJoined ==
  /\ FormattedComplex
  /\ calc.arg = ComplexValue(Whole(2), Finite(TRUE, <<"3">>, 0))
  /\ calc.outputs[1] = <<"2", " ", "-", " ", "3", "i">>

\* the call of a function whose name ends in a digit
CallOfLog10 == <<"l", "o", "g", "1", "0", "(">>

\* C29: preprocessExpression leaves a call of a function whose name ends in a
\* digit unchanged: the output for an input with 'log10(' still holds
\* 'log10(', as often as the input, and no '*' between the name and its
\* parenthesis
DigitNamedCallUnchanged ==
  CalcReturned("preprocessExpression") /\ Contains(calc.arg, CallOfLog10) =>
    /\ Cardinality({k \in 1..Len(calc.outputs[1]) : HasAt(calc.outputs[1], k, CallOfLog10)})
         = Cardinality({k \in 1..Len(calc.arg) : HasAt(calc.arg, k, CallOfLog10)})
    /\ ~Contains(calc.outputs[1], <<"l", "o", "g", "1", "0", "*", "(">>)

\* a single root and no error, or no root and the error field set
SingleRootOrError(r) ==
  \/ Len(r.roots) = 1 /\ r.error = NoError
  \/ r.roots = <<>> /\ r.error # NoError

\* C28: every result of newtonRaphson and of bisection is a single root with
\* no error, or no root with the error field set
NewtonAndBisectionResultShapes ==
  /\ (mode = "bisection" /\ bis.pc = "done") => SingleRootOrError(bis.result)
  /\ (mode = "newtonRaphson" /\ newton.pc = "done") => SingleRootOrError(newton.result)

\* bisection has returned without a root from an interval whose ends have
\* values of the same sign
BisectionReturnedErrorOnly ==
  /\ mode = "bisection"
  /\ bis.pc = "done"
  /\ ~IsThrown(bis.compiled)
  /\ NoSignChange(bis.s)
  /\ bis.result.roots = <<>>
  /\ bis.result.error # NoError

\* the scan has called bisection on the pair x_(i-1), x_i
CalledBisectionAt(i) ==
  \E k \in 1..Len(scan.s.log) :
    /\ scan.s.log[k].ev = "bisect"
    /\ scan.s.log[k].a = SampleAt(i - 1)
    /\ scan.s.log[k].b = SampleAt(i)

\* the part of C26 that is about findAllRoots: it refines no pair of samples
\* in which a value is not finite and flags no sample whose value is not
\* finite
NonFiniteSamplesGiveNoRoot ==
  ScanReturned =>
    \A i \in 1..scan.scanResolution :
      /\ (~isFinite(ValueAt(i - 1)) \/ ~isFinite(ValueAt(i))) => ~CalledBisectionAt(i)
      /\ ~isFinite(ValueAt(i)) =>
           \A k \in 1..Len(scan.result.roots) :
             scan.result.roots[k] # roundToSignificant(SampleAt(i), SigFigures)

\* C26: bisection reports no root when f is not finite at an end of its
\* interval, and findAllRoots reports no root for a pair of samples in which
\* a value is not finite
NonFiniteMeansNoRoot ==
  /\ (/\ BisectionCompiled
      /\ bis.pc = "done"
      /\ \/ ~isFinite(evaluateCompiled(bis.compiled, bis.a))
         \/ ~isFinite(evaluateCompiled(bis.compiled, bis.b)))
       => bis.result.roots = <<>>
  /\ NonFiniteSamplesGiveNoRoot

\* the call of newtonRaphson or of findAllRoots has returned
LoopReturned ==
  \/ mode = "newtonRaphson" /\ newton.pc = "done"
  \/ mode = "findAllRoots" /\ scan.pc = "done"

\* the scan steps findAllRoots has run
ScanSteps == {k \in 1..Len(scan.s.log) : scan.s.log[k].ev = "sample" /\ scan.s.log[k].i >= 1}

\* the passes of newtonRaphson are at most maxIterations, of at most three
\* evaluations each
NewtonWithinBounds ==
  (mode = "newtonRaphson" /\ newton.pc \in {"loop", "done"}) =>
    /\ Len(newton.evaluations) <= newton.maxIterations
    /\ \A k \in 1..Len(newton.evaluations) : Len(newton.evaluations[k]) <= 3

\* the scan steps of findAllRoots are at most scanResolution, and exactly
\* scanResolution when it returns; a step calls bisection at most once, and
\* the call makes at most 100 passes
ScanWithinBounds ==
  (mode = "findAllRoots" /\ scan.pc \in {"loop", "done"} /\ ~IsThrown(scan.compiled)) =>
    /\ Cardinality(ScanSteps) <= scan.scanResolution
    /\ scan.pc = "done" => Cardinality(ScanSteps) = scan.scanResolution
    /\ \A k \in 1..Len(scan.s.log) :
         scan.s.log[k].ev = "bisect" =>
           /\ scan.s.log[k - 1].ev = "sample"
           /\ scan.s.log[k].iterations <= DefaultMaxIterations

\* C23: every call of newtonRaphson and of findAllRoots terminates;
\* newtonRaphson runs at most maxIterations passes of at most three
\* evaluations each, findAllRoots runs exactly scanResolution scan steps, each
\* with at most one bisection of at most 100 passes
LoopsTerminateWithinBounds ==
  /\ <>LoopReturned
  /\ [](NewtonWithinBounds /\ ScanWithinBounds)

\* findAllRoots has returned after scanResolution steps, one of which called a
\* bisection that ran all of its 100 passes
ScanReturnedAfterFullBisection ==
  /\ ScanReturned
  /\ Cardinality(ScanSteps) = scan.scanResolution
  /\ \E k \in 1..Len(scan.s.log) :
       scan.s.log[k].ev = "bisect" /\ scan.s.log[k].iterations = DefaultMaxIterations

\* newtonRaphson has returned after maxIterations passes of three evaluations
NewtonReturnedAfterAllPasses ==
  /\ mode = "newtonRaphson"
  /\ newton.pc = "done"
  /\ newton.maxIterations >= 2
  /\ Len(newton.evaluations) = newton.maxIterations
  /\ \A k \in 1..Len(newton.evaluations) : Len(newton.evaluations[k]) = 3

\* text is the decimal text of a finite real number
IsFiniteReal(text) ==
  LET body == IF text # <<>> /\ Head(text) = "-" THEN Tail(text) ELSE text
  IN  body # <<>> /\ DigitRunEnd(body, 1) = Len(body)

\* the call c of solveSymbolic has returned what the backend's solutions gave
SymbolicReturned(c) ==
  /\ mode = "solve"
  /\ calls[c].pc \in {"resumed", "done"}
  /\ calls[c].symbolicResult.method = "symbolic"
  /\ calls[c].n = "module"
  /\ ~IsThrown(input.solved)

\* C24: every root solveSymbolic returns is the value of a solution whose
\* decimal text is a finite real number; a solution whose text is complex, not
\* numeric or not finite gives no root, not even through a numeric prefix
SymbolicRootsAreRealSolutions ==
  \A c \in CallIds :
    SymbolicReturned(c) =>
      \A k \in 1..Len(calls[c].symbolicResult.roots) :
        \E j \in 1..Len(input.solved.solutions) :
          /\ ~input.solved.solutions[j].throws
          /\ IsFiniteReal(input.solved.solutions[j].text)
          /\ parseFloat(input.solved.solutions[j].text) = calls[c].symbolicResult.roots[k]

\* C25: the roots solveSymbolic returns, and solve returns on the symbolic
\* path, are ascending and no two of them are within tolerance * 100 of each
\* other
SymbolicRootsAscendingAndApart ==
  \A c \in CallIds :
    SymbolicReturned(c) =>
      \A j, k \in 1..Len(calls[c].symbolicResult.roots) :
        j < k =>
          /\ calls[c].symbolicResult.roots[j] <= calls[c].symbolicResult.roots[k]
          /\ ~LtTolerance(MathAbs(FSub(calls[c].symbolicResult.roots[j],
                                       calls[c].symbolicResult.roots[k])),
                          100, 1, Option(input.options, "tolerance", DefaultTolerance))

\* the part of C25 that is about the order
SymbolicRootsAscending ==
  \A c \in CallIds :
    SymbolicReturned(c) =>
      \A j, k \in 1..Len(calls[c].symbolicResult.roots) :
        j < k => calls[c].symbolicResult.roots[j] < calls[c].symbolicResult.roots[k]

\* the call is at a singularity or outside the domain the claim names:
\* csc(0), acoth(1), logBase(0, b), nCr and nPr of a negative or fractional
\* argument
NamedSingularity(call) ==
  \/ call.name = "csc" /\ call.x = 0
  \/ call.name = "acoth" /\ call.x = 2
  \/ call.name = "logBase" /\ call.x = 0
  \/ /\ call.name \in {"nCr", "nPr"}
     /\ (call.x < 0 \/ call.y < 0 \/ call.x % 2 # 0 \/ call.y % 2 # 0)

\* C27: every function of the registry returns a value for every real
\* argument and never throws; at a singularity and outside its domain the
\* value is not finite
RegistryNeverThrows ==
  CalcReturned("registry") =>
    /\ ~IsThrown(calc.outputs[1])
    /\ NamedSingularity(calc.arg) => calc.outputs[1].class \in NonFinite

\* the part of C27 that is about the functions other than nCr and nPr
RegistryOfMathNeverThrows ==
  (CalcReturned("registry") /\ calc.arg.name \notin {"nCr", "nPr"}) =>
    /\ ~IsThrown(calc.outputs[1])
    /\ NamedSingularity(calc.arg) => calc.outputs[1].class \in NonFinite

\* a call of solve made by handleSolve has not returned to it
InFlight == \E c \in 1..Len(ui.requests) : ui.requests[c].pc # "returned"

\* the part of C30 that is about the result: once every call has completed,
\* the component shows the result of the equation submitted last
LastSubmittedIsDisplayed ==
  (mode = "component" /\ ui.requests # <<>> /\ ~InFlight) =>
    ui.result = ui.requests[Len(ui.requests)].result

==========================================================================
